---- MODULE Spec2Model ----
(***************************************************************************)
(* Mesh generation pipeline of the SDF library: batching and scheduling    *)
(* (MeshGenerator::generate), the sparse skip test (canSkipBatch) and      *)
(* surface extraction (MarchingCubes).                                     *)
(*                                                                         *)
(* Numbers.  Field values and world lengths are integers counted in one    *)
(* common unit; EPS is the code's 1e-10 tolerance in that unit.  Marching  *)
(* cubes vertices are exact rationals <<num, den>> in lowest terms.  The   *)
(* seam model (SeamSpec) keeps the rounding of floating point arithmetic   *)
(* with a mantissa of MantissaBits bits.                                   *)
(*                                                                         *)
(* Further parts: the step and grid of generate (StepSpec), the boolean    *)
(* combinators of SDF3 on two operands (CombineSpec), SDF3 objects with    *)
(* their tags under the operators and Operations (FieldSpec) and           *)
(* MeshGenerator::estimateBounds (EstimateSpec).  There a double is a pair *)
(* <<n, d>> that also covers the infinities and NaN.                       *)
(*                                                                         *)
(* One cell of extractSurface (CellSpec), vertexInterp on one edge         *)
(* (InterpSpec), the box of estimateBounds in exact arithmetic (BoxSpec)   *)
(* and in rounded arithmetic (FlBoxSpec), and generate run with and        *)
(* without sparse sampling on the same grid (SparseSpec).                  *)
(***************************************************************************)
EXTENDS Integers, Sequences, FiniteSets, Bags, TLC

VARIABLES
    \* ---- MeshGenerator::generate -------------------------------------
    opts,            \* Options and the field: the arguments of generate
    gpc,             \* position of the calling thread inside generate
    dimsN,           \* <<nx, ny, nz>>
    batches,         \* std::vector<tuple<int,int,int,int,int,int>> batches
    spins,           \* iterations made by a batch loop that cannot end
    launched,        \* number of iterations made by the launch loop
    joined,          \* number of threads joined so far
    threads,         \* std::vector<std::thread>: worker ids in launch order
    wpc,             \* position of each worker inside processBatchRange
    wStart, wEnd,    \* the arguments (start, end) each thread was given
    wi,              \* loop variable i of each worker
    localTriangles,  \* each worker's local buffer
    allTriangles,    \* the shared result vector
    resultMutex,     \* holder of resultMutex (0 = free)
    batchesProcessed,
    batchesSkipped,
    \* ---- MarchingCubes::triTable scan --------------------------------
    tpc, tIndex, tPos, tEmitted,
    \* ---- one call of a pure function (batch list, canSkipBatch, the
    \*      world mapping at a seam): its arguments and its result -------
    fpc, fIn, fOut

genVars   == <<opts, gpc, dimsN, batches, spins, launched, joined, threads, wpc,
               wStart, wEnd, wi, localTriangles, allTriangles, resultMutex,
               batchesProcessed, batchesSkipped>>
tableVars == <<tpc, tIndex, tPos, tEmitted>>
fnVars    == <<fpc, fIn, fOut>>
vars      == <<genVars, tableVars, fnVars>>

notGenVars   == <<tableVars, fnVars>>
notTableVars == <<genVars, fnVars>>
notFnVars    == <<genVars, tableVars>>

----------------------------------------------------------------------------
(* Arithmetic helpers *)

Abs(x) == IF x < 0 THEN -x ELSE x

Min(a, b) == IF a < b THEN a ELSE b

Max(a, b) == IF a > b THEN a ELSE b

\* std::ceil(a / b) for b > 0
CeilDiv(a, b) == IF a >= 0 THEN (a + b - 1) \div b ELSE -((-a) \div b)

RECURSIVE GCD(_, _)
GCD(a, b) == IF b = 0 THEN a ELSE GCD(b, a % b)

\* the rational n/d (d # 0) in lowest terms with a positive denominator
Rat(n, d) ==
    LET s == IF d < 0 THEN -1 ELSE 1
        g == GCD(Abs(n), Abs(d))
    IN  <<(s * n) \div g, (s * d) \div g>>

RatInt(n) == <<n, 1>>

RECURSIVE SeqSum(_)
SeqSum(s) == IF s = <<>> THEN 0 ELSE Head(s) + SeqSum(Tail(s))

Range(s) == {s[i] : i \in DOMAIN s}

SeqToBag(s) == [x \in Range(s) |-> Cardinality({i \in DOMAIN s : s[i] = x})]

----------------------------------------------------------------------------
(* MarchingCubes *)

\* the tolerance 1e-10 of vertexInterp, in value units
EPS == 2

TableRows == 256

RowLen == 16

NoEdges == [i \in 1..RowLen |-> -1]

PadRow(s) == [i \in 1..RowLen |-> IF i <= Len(s) THEN s[i] ELSE -1]

\* The rows the initializer of triTable lists: cases 0..15 and one row of -1.
ListedRows ==
    << NoEdges,
       PadRow(<<0, 8, 3>>),
       PadRow(<<0, 1, 9>>),
       PadRow(<<1, 8, 3, 9, 8, 1>>),
       PadRow(<<1, 2, 10>>),
       PadRow(<<0, 8, 3, 1, 2, 10>>),
       PadRow(<<9, 2, 10, 0, 2, 9>>),
       PadRow(<<2, 8, 3, 2, 10, 8, 10, 9, 8>>),
       PadRow(<<3, 11, 2>>),
       PadRow(<<0, 11, 2, 8, 11, 0>>),
       PadRow(<<1, 9, 0, 2, 3, 11>>),
       PadRow(<<1, 11, 2, 1, 9, 11, 9, 8, 11>>),
       PadRow(<<3, 10, 1, 11, 10, 3>>),
       PadRow(<<0, 10, 1, 0, 8, 10, 8, 11, 10>>),
       PadRow(<<3, 9, 0, 3, 11, 9, 11, 10, 9>>),
       PadRow(<<9, 8, 10, 10, 8, 11>>),
       NoEdges >>

\* const int triTable[256][16]: the rows the initializer does not list are
\* value-initialized, i.e. sixteen zeros.
TriTable(c) ==
    IF c < Len(ListedRows) THEN ListedRows[c + 1] ELSE [i \in 1..RowLen |-> 0]

\* triIndices[i] for 0 <= i < 16
TriIndex(c, i) == TriTable(c)[i + 1]

\* The emission loop of extractSurface over row c:
\*   for (i = 0; triIndices[i] != -1; i += 3) push 3 vertices
\* RowScan(c, i) is the position at which the loop stops reading row c:
\* the index of the -1 it meets, or RowLen or more when it runs off the row.
RECURSIVE RowScan(_, _)
RowScan(c, i) ==
    IF i >= RowLen THEN i
    ELSE IF TriIndex(c, i) = -1 THEN i
    ELSE IF i + 2 >= RowLen THEN RowLen
    ELSE RowScan(c, i + 3)

\* the loop over row c stops at a -1 of that row
RowTerminates(c) == RowScan(c, 0) < RowLen

\* number of whole triangles pushed from entries of row c
RowTriangles(c) == Min(RowScan(c, 0), RowLen - 1) \div 3

\* corners[0..7] of the cell at the origin (extractSurface, corner order)
CornerOffsets ==
    << <<0, 0, 0>>, <<1, 0, 0>>, <<1, 1, 0>>, <<0, 1, 0>>,
       <<0, 0, 1>>, <<1, 0, 1>>, <<1, 1, 1>>, <<0, 1, 1>> >>

\* the corner pairs of edgeVertices[0..11]
EdgeCorners ==
    << <<0, 1>>, <<1, 2>>, <<2, 3>>, <<3, 0>>, <<4, 5>>, <<5, 6>>,
       <<6, 7>>, <<7, 4>>, <<0, 4>>, <<1, 5>>, <<2, 6>>, <<3, 7>> >>

\* a vertex read from outside edgeVertices / triTable
Garbage == << <<0, 0>>, <<0, 0>>, <<0, 0>> >>

VertexOf(p) == <<RatInt(p[1]), RatInt(p[2]), RatInt(p[3])>>

\* vertexInterp with the test on v2 made before the test on v1
VertexInterpSecondFirst(isolevel, p1, p2, v1, v2) ==
    IF Abs(isolevel - v2) < EPS THEN VertexOf(p2)
    ELSE IF Abs(isolevel - v1) < EPS THEN VertexOf(p1)
    ELSE IF Abs(v1 - v2) < EPS THEN VertexOf(p1)
    ELSE [k \in 1..3 |->
            Rat(p1[k] * (v2 - v1) + (p2[k] - p1[k]) * (isolevel - v1), v2 - v1)]

\* MarchingCubes::vertexInterp; p1, p2 are integer lattice points
VertexInterp(isolevel, p1, p2, v1, v2) ==
    IF Abs(isolevel - v1) < EPS THEN VertexOf(p1)
    ELSE IF Abs(isolevel - v2) < EPS THEN VertexOf(p2)
    ELSE IF Abs(v1 - v2) < EPS THEN VertexOf(p1)
    ELSE [k \in 1..3 |->
            Rat(p1[k] * (v2 - v1) + (p2[k] - p1[k]) * (isolevel - v1), v2 - v1)]

\* vertexInterp reaches mu = (isolevel - v1) / (v2 - v1)
InterpDivides(isolevel, v1, v2) ==
    ~(Abs(isolevel - v1) < EPS) /\ ~(Abs(isolevel - v2) < EPS) /\ ~(Abs(v1 - v2) < EPS)

\* MarchingCubes::getIndex
GetIndex(x, y, z, dims) == x + y * dims[1] + z * dims[1] * dims[2]

Pow2(i) == CASE i = 0 -> 1 [] i = 1 -> 2 [] i = 2 -> 4 [] i = 3 -> 8
             [] i = 4 -> 16 [] i = 5 -> 32 [] i = 6 -> 64 [] i = 7 -> 128

\* the cube index with the test values[i] <= level
CubeIndexAtOrBelow(values, level) ==
    SeqSum([i \in 1..8 |-> IF values[i] <= level THEN Pow2(i - 1) ELSE 0])

\* cubeIndex |= (1 << i) for every corner i with values[i] < level
CubeIndex(values, level) ==
    SeqSum([i \in 1..8 |-> IF values[i] < level THEN Pow2(i - 1) ELSE 0])

\* the values at the 8 corners of cell (x, y, z) of the volume
CellValues(volume, dims, x, y, z) ==
    [i \in 1..8 |->
        volume[GetIndex(x + CornerOffsets[i][1], y + CornerOffsets[i][2],
                        z + CornerOffsets[i][3], dims) + 1]]

CellCorners(x, y, z) ==
    [i \in 1..8 |-> <<x + CornerOffsets[i][1], y + CornerOffsets[i][2],
                      z + CornerOffsets[i][3]>>]

EdgeVertices(values, corners, level) ==
    [e \in 1..12 |->
        VertexInterp(level, corners[EdgeCorners[e][1] + 1], corners[EdgeCorners[e][2] + 1],
                     values[EdgeCorners[e][1] + 1], values[EdgeCorners[e][2] + 1])]

\* the loop body with the third push_back missing
CellTrianglesTwoPushes(values, corners, level, g) ==
    LET c  == CubeIndex(values, level)
        ev == EdgeVertices(values, corners, level)
        n  == RowTriangles(c)
    IN  IF c = 0 \/ c = 255 THEN <<>>
        ELSE [j \in 1..(2 * n) |-> ev[TriIndex(c, 3 * ((j - 1) \div 2) + ((j - 1) % 2)) + 1]]

\* the loop body of extractSurface for one cell.  Entries read inside the row
\* give whole triangles; when the loop runs off the row the reads are out of
\* bounds and g more triangles of garbage are pushed (g is the outcome of the
\* undefined behaviour, chosen by the caller).
CellTriangles(values, corners, level, g) ==
    LET c  == CubeIndex(values, level)
        ev == EdgeVertices(values, corners, level)
        n  == RowTriangles(c)
    IN  IF c = 0 \/ c = 255 THEN <<>>
        ELSE [j \in 1..(3 * n) |-> ev[TriIndex(c, j - 1) + 1]]
             \o (IF RowTerminates(c) THEN <<>> ELSE [j \in 1..(3 * g) |-> Garbage])

CellCount(dims) == Max(dims[1] - 1, 0) * Max(dims[2] - 1, 0) * Max(dims[3] - 1, 0)

\* cell number k in the order of the loops (z outermost, x innermost)
CellAt(k, dims) ==
    LET cx == dims[1] - 1
        cy == dims[2] - 1
    IN  <<k % cx, (k \div cx) % cy, k \div (cx * cy)>>

RECURSIVE ExtractFrom(_, _, _, _, _)
ExtractFrom(k, volume, dims, level, g) ==
    IF k >= CellCount(dims) THEN <<>>
    ELSE LET c == CellAt(k, dims)
         IN  CellTriangles(CellValues(volume, dims, c[1], c[2], c[3]),
                           CellCorners(c[1], c[2], c[3]), level, g)
             \o ExtractFrom(k + 1, volume, dims, level, g)

\* MarchingCubes::extractSurface
ExtractSurface(volume, dims, level, g) == ExtractFrom(0, volume, dims, level, g)

\* some cell of the volume makes the emission loop run off its table row
HasOverrun(volume, dims, level) ==
    \E k \in 0..(CellCount(dims) - 1) :
        LET c  == CellAt(k, dims)
            ci == CubeIndex(CellValues(volume, dims, c[1], c[2], c[3]), level)
        IN  ci # 0 /\ ci # 255 /\ ~RowTerminates(ci)

----------------------------------------------------------------------------
(* Fields (SDF3).  A field is [kind, a, b, c, d, s]:                       *)
(*   "plane"  : f(p) = a*p.x + b*p.y + c*p.z + d  (a scaled plane)          *)
(*   "octa"   : f(p) = s*(|p.x-a| + |p.y-b| + |p.z-c|) - d  (a user field)  *)
(*   "sphere" : f(p) = |p - (a, b, c)| - d        (sphere of radius d)      *)
(*   "raising": a user function that throws when it is called               *)
(* Points are given doubled (P2 = 2*p) so that batch centres are integral.  *)

\* the user function of the field throws
Raises(f) == f.kind = "raising"

Sign(x) == IF x < 0 THEN -1 ELSE IF x > 0 THEN 1 ELSE 0

Dist2(P2, f) ==
    (P2[1] - 2 * f.a) * (P2[1] - 2 * f.a) + (P2[2] - 2 * f.b) * (P2[2] - 2 * f.b)
    + (P2[3] - 2 * f.c) * (P2[3] - 2 * f.c)

\* twice the value of a plane or octa field at P2/2
Value2(f, P2) ==
    IF f.kind = "plane" THEN f.a * P2[1] + f.b * P2[2] + f.c * P2[3] + 2 * f.d
    ELSE f.s * (Abs(P2[1] - 2 * f.a) + Abs(P2[2] - 2 * f.b) + Abs(P2[3] - 2 * f.c))
         - 2 * f.d

\* the sign of sdf(P2/2)
FieldSign(f, P2) ==
    IF f.kind = "sphere" THEN Sign(Dist2(P2, f) - 4 * f.d * f.d)
    ELSE Sign(Value2(f, P2))

\* std::abs(sdf(P2/2)) <= sqrt(D)/2, decided exactly on squares
FieldAbsLeq(f, P2, D) ==
    IF f.kind = "sphere"
    THEN LET n2 == Dist2(P2, f)
             up == n2 - 4 * f.d * f.d - D
             lo == 4 * f.d * f.d - n2 - D
         IN  /\ (up <= 0 \/ up * up <= 16 * f.d * f.d * D)
             /\ (lo <= 0 \/ lo * lo <= 4 * n2 * D)
    ELSE Value2(f, P2) * Value2(f, P2) <= D

\* the value of a plane or octa field at the integer point p
FieldValue(f, p) == Value2(f, <<2 * p[1], 2 * p[2], 2 * p[3]>>) \div 2

Double(p) == <<2 * p[1], 2 * p[2], 2 * p[3]>>

\* the corners of canSkipBatch, in the order of its initializer list
BatchCorners(bmin, bmax) ==
    << <<bmin[1], bmin[2], bmin[3]>>, <<bmax[1], bmin[2], bmin[3]>>,
       <<bmin[1], bmax[2], bmin[3]>>, <<bmax[1], bmax[2], bmin[3]>>,
       <<bmin[1], bmin[2], bmax[3]>>, <<bmax[1], bmin[2], bmax[3]>>,
       <<bmin[1], bmax[2], bmax[3]>>, <<bmax[1], bmax[2], bmax[3]>> >>

\* (batchMax - batchMin).lengthSquared()
Diag2(bmin, bmax) ==
    (bmax[1] - bmin[1]) * (bmax[1] - bmin[1]) + (bmax[2] - bmin[2]) * (bmax[2] - bmin[2])
    + (bmax[3] - bmin[3]) * (bmax[3] - bmin[3])

\* a skip test that looks at the corners only
CanSkipBatchCornersOnly(f, bmin, bmax) ==
    LET vs == [i \in 1..8 |-> FieldSign(f, Double(BatchCorners(bmin, bmax)[i]))]
    IN  (\A i \in 1..8 : ~(vs[i] < 0)) \/ (\A i \in 1..8 : ~(vs[i] > 0))

\* MeshGenerator::canSkipBatch
CanSkipBatch(f, bmin, bmax) ==
    LET center2 == <<bmin[1] + bmax[1], bmin[2] + bmax[2], bmin[3] + bmax[3]>>
        vs      == [i \in 1..8 |-> FieldSign(f, Double(BatchCorners(bmin, bmax)[i]))]
        allPositive == \A i \in 1..8 : ~(vs[i] < 0)
        allNegative == \A i \in 1..8 : ~(vs[i] > 0)
    IN  IF FieldAbsLeq(f, center2, Diag2(bmin, bmax)) THEN FALSE
        ELSE allPositive \/ allNegative

----------------------------------------------------------------------------
(* MeshGenerator::generate *)

\* largest extent boundsMax - boundsMin of the caller's box on x and on y
MaxExtX == 3

MaxExtY == 1

MaxBatchSize == 2

MaxWorkers == 2

\* cap on the iterations followed of a batch loop that never ends
MaxSpin == 2

\* cap on the triangles pushed by reads past a table row
MaxOverrun == 2

\* workers = 4 when hardware_concurrency() reports 0
DefaultWorkers == 4

Workers == 1..Max(MaxWorkers, DefaultWorkers)

BoundsMin == <<-1, 0, 0>>

GenFields ==
    { [kind |-> "plane", a |-> 0, b |-> 0, c |-> 4, d |-> -2, s |-> 1],
      [kind |-> "plane", a |-> 4, b |-> 0, c |-> 6, d |-> 2, s |-> 1],
      [kind |-> "plane", a |-> 0, b |-> 0, c |-> 0, d |-> 3, s |-> 1],
      [kind |-> "octa", a |-> 0, b |-> 0, c |-> 1, d |-> 2, s |-> 4],
      [kind |-> "raising", a |-> 0, b |-> 0, c |-> 0, d |-> 0, s |-> 0] }

GenOptions ==
    { o \in [step : {1, 2}, ext : (0..MaxExtX) \X (0..MaxExtY) \X {0, 1},
             bmin : {BoundsMin}, batchSize : {-1} \cup (0..MaxBatchSize),
             workers : 0..MaxWorkers, hardware : {0, 2}, sparse : BOOLEAN,
             field : GenFields] :
        o.workers # 0 => o.hardware = 0 }

GenInit ==
    /\ opts \in GenOptions
    /\ gpc = "grid"
    /\ dimsN = <<0, 0, 0>>
    /\ batches = <<>>
    /\ spins = 0
    /\ launched = 0
    /\ joined = 0
    /\ threads = <<>>
    /\ wpc = [t \in Workers |-> "none"]
    /\ wStart = [t \in Workers |-> 0]
    /\ wEnd = [t \in Workers |-> 0]
    /\ wi = [t \in Workers |-> 0]
    /\ localTriangles = [t \in Workers |-> <<>>]
    /\ allTriangles = <<>>
    /\ resultMutex = 0
    /\ batchesProcessed = 0
    /\ batchesSkipped = 0

GenIdle ==
    /\ opts = <<>>
    /\ gpc = "off"
    /\ dimsN = <<0, 0, 0>>
    /\ batches = <<>>
    /\ spins = 0
    /\ launched = 0
    /\ joined = 0
    /\ threads = <<>>
    /\ wpc = [t \in Workers |-> "none"]
    /\ wStart = [t \in Workers |-> 0]
    /\ wEnd = [t \in Workers |-> 0]
    /\ wi = [t \in Workers |-> 0]
    /\ localTriangles = [t \in Workers |-> <<>>]
    /\ allTriangles = <<>>
    /\ resultMutex = 0
    /\ batchesProcessed = 0
    /\ batchesSkipped = 0

\* nx, ny, nz: ceil(extent / step) + 1
GridDims(ext, step) ==
    <<CeilDiv(ext[1], step) + 1, CeilDiv(ext[2], step) + 1, CeilDiv(ext[3], step) + 1>>

\* the grid dimensions are computed (the bounds are the caller's)
ComputeGrid ==
    /\ gpc = "grid"
    /\ dimsN' = GridDims(opts.ext, opts.step)
    /\ gpc' = "batching"
    /\ UNCHANGED <<notGenVars, opts, batches, spins, launched, joined, threads, wpc, wStart, wEnd,
                   wi, localTriangles, allTriangles, resultMutex, batchesProcessed,
                   batchesSkipped>>

\* the x loop with x1 = x + batchSize, not clipped to nx - 1
RECURSIVE BatchesXNoClip(_, _, _, _, _)
BatchesXNoClip(x, y, z, n, bs) ==
    IF x < n[1] - 1
    THEN << <<x, x + bs, y, Min(y + bs, n[2] - 1), z, Min(z + bs, n[3] - 1)>> >>
         \o BatchesXNoClip(x + bs, y, z, n, bs)
    ELSE <<>>

\* for (x = 0; x < nx - 1; x += batchSize) batches.push_back(...)
RECURSIVE BatchesX(_, _, _, _, _)
BatchesX(x, y, z, n, bs) ==
    IF x < n[1] - 1
    THEN << <<x, Min(x + bs, n[1] - 1), y, Min(y + bs, n[2] - 1),
              z, Min(z + bs, n[3] - 1)>> >>
         \o BatchesX(x + bs, y, z, n, bs)
    ELSE <<>>

\* for (y = 0; y < ny - 1; y += batchSize)
RECURSIVE BatchesY(_, _, _, _)
BatchesY(y, z, n, bs) ==
    IF y < n[2] - 1 THEN BatchesX(0, y, z, n, bs) \o BatchesY(y + bs, z, n, bs) ELSE <<>>

\* for (z = 0; z < nz - 1; z += batchSize)
RECURSIVE BatchesZ(_, _, _)
BatchesZ(z, n, bs) ==
    IF z < n[3] - 1 THEN BatchesY(0, z, n, bs) \o BatchesZ(z + bs, n, bs) ELSE <<>>

\* the batch list the three loops build when they end
BatchList(n, bs) == IF n[3] - 1 <= 0 THEN <<>> ELSE BatchesZ(0, n, bs)

\* the three loops end: batchSize >= 1, or the outer loop is not entered
BuildBatches ==
    /\ gpc = "batching"
    /\ opts.batchSize >= 1 \/ dimsN[3] - 1 <= 0
    /\ batches' = BatchList(dimsN, opts.batchSize)
    /\ gpc' = "launch"
    /\ UNCHANGED <<notGenVars, opts, dimsN, spins, launched, joined, threads, wpc, wStart, wEnd, wi,
                   localTriangles, allTriangles, resultMutex, batchesProcessed,
                   batchesSkipped>>

\* batchSize <= 0: the innermost loop that is entered never ends; one
\* iteration of it (the x loop pushes a batch, the y and z loops push none)
BatchLoopSpin ==
    /\ gpc = "batching"
    /\ opts.batchSize <= 0
    /\ dimsN[3] - 1 > 0
    /\ spins < MaxSpin
    /\ spins' = spins + 1
    /\ batches' =
         IF dimsN[2] - 1 > 0 /\ dimsN[1] - 1 > 0
         THEN Append(batches,
                     <<spins * opts.batchSize,
                       Min(spins * opts.batchSize + opts.batchSize, dimsN[1] - 1),
                       0, Min(opts.batchSize, dimsN[2] - 1),
                       0, Min(opts.batchSize, dimsN[3] - 1)>>)
         ELSE batches
    /\ UNCHANGED <<notGenVars, opts, gpc, dimsN, launched, joined, threads, wpc, wStart, wEnd, wi,
                   localTriangles, allTriangles, resultMutex, batchesProcessed,
                   batchesSkipped>>

\* workers = options.workers, or hardware_concurrency(), or 4
WorkerCount(o) ==
    IF o.workers = 0 THEN (IF o.hardware = 0 THEN DefaultWorkers ELSE o.hardware)
    ELSE o.workers

\* batches.size() / workers, rounded down
BatchesPerWorkerFloor(n, w) == n \div w

\* batchesPerWorker = (batches.size() + workers - 1) / workers
BatchesPerWorker(n, w) == (n + w - 1) \div w

\* (start, end) of iteration i of the launch loop
WorkerRange(i, n, w) ==
    <<i * BatchesPerWorker(n, w), Min(i * BatchesPerWorker(n, w) + BatchesPerWorker(n, w), n)>>

\* one iteration of the launch loop
LaunchStep ==
    /\ gpc = "launch"
    /\ launched < WorkerCount(opts)
    /\ LET r == WorkerRange(launched, Len(batches), WorkerCount(opts))
           t == Len(threads) + 1
       IN  IF r[1] < r[2]
           THEN /\ threads' = Append(threads, t)
                /\ wpc' = [wpc EXCEPT ![t] = "loop"]
                /\ wStart' = [wStart EXCEPT ![t] = r[1]]
                /\ wEnd' = [wEnd EXCEPT ![t] = r[2]]
                /\ wi' = [wi EXCEPT ![t] = r[1]]
           ELSE UNCHANGED <<notGenVars, threads, wpc, wStart, wEnd, wi>>
    /\ launched' = launched + 1
    /\ UNCHANGED <<notGenVars, opts, gpc, dimsN, batches, spins, joined, localTriangles, allTriangles,
                   resultMutex, batchesProcessed, batchesSkipped>>

LaunchDone ==
    /\ gpc = "launch"
    /\ launched = WorkerCount(opts)
    /\ gpc' = "join"
    /\ UNCHANGED <<notGenVars, opts, dimsN, batches, spins, launched, joined, threads, wpc, wStart,
                   wEnd, wi, localTriangles, allTriangles, resultMutex, batchesProcessed,
                   batchesSkipped>>

\* thread.join() on the next thread of the vector
JoinStep ==
    /\ gpc = "join"
    /\ joined < Len(threads)
    /\ wpc[threads[joined + 1]] = "done"
    /\ joined' = joined + 1
    /\ UNCHANGED <<notGenVars, opts, gpc, dimsN, batches, spins, launched, threads, wpc, wStart, wEnd,
                   wi, localTriangles, allTriangles, resultMutex, batchesProcessed,
                   batchesSkipped>>

\* return allTriangles
Return ==
    /\ gpc = "join"
    /\ joined = Len(threads)
    /\ gpc' = "returned"
    /\ UNCHANGED <<notGenVars, opts, dimsN, batches, spins, launched, joined, threads, wpc, wStart,
                   wEnd, wi, localTriangles, allTriangles, resultMutex, batchesProcessed,
                   batchesSkipped>>

----------------------------------------------------------------------------
(* processBatchRange: the body of a worker thread *)

\* batchMin of batch b = (x0, x1, y0, y1, z0, z1)
BatchMin(o, b) ==
    <<o.bmin[1] + b[1] * o.step, o.bmin[2] + b[3] * o.step, o.bmin[3] + b[5] * o.step>>

BatchMax(o, b) ==
    <<o.bmin[1] + b[2] * o.step, o.bmin[2] + b[4] * o.step, o.bmin[3] + b[6] * o.step>>

\* dims = {batchNx, batchNy, batchNz}
BatchDims(b) == <<b[2] - b[1] + 1, b[4] - b[3] + 1, b[6] - b[5] + 1>>

\* the world point of the grid point with global index (gx, gy, gz)
GridPoint(o, gx, gy, gz) ==
    <<o.bmin[1] + gx * o.step, o.bmin[2] + gy * o.step, o.bmin[3] + gz * o.step>>

\* sdf.evaluate(gridPoints): x runs fastest, then y, then z
GridValues(o, b) ==
    LET d == BatchDims(b)
    IN  [k \in 1..(d[1] * d[2] * d[3]) |->
            FieldValue(o.field,
                       GridPoint(o, b[1] + ((k - 1) % d[1]),
                                    b[3] + (((k - 1) \div d[1]) % d[2]),
                                    b[5] + ((k - 1) \div (d[1] * d[2]))))]

\* v = v * scale + offset
ToWorld(v, step, offset) ==
    IF v = Garbage THEN Garbage
    ELSE [k \in 1..3 |-> Rat(v[k][1] * step + offset[k] * v[k][2], v[k][2])]

\* the triangles batch b adds to the local buffer
BatchTriangles(o, b, g) ==
    LET tri == ExtractSurface(GridValues(o, b), BatchDims(b), 0, g)
    IN  [j \in 1..Len(tri) |-> ToWorld(tri[j], o.step, BatchMin(o, b))]

BatchOverruns(o, b) == HasOverrun(GridValues(o, b), BatchDims(b), 0)

\* options.sparse && canSkipBatch(sdf, batchMin, batchMax)
SkipsBatch(o, b) == o.sparse /\ CanSkipBatch(o.field, BatchMin(o, b), BatchMax(o, b))

Alive == gpc \in {"launch", "join"}

AtBatch(t) == Alive /\ wpc[t] = "loop" /\ wi[t] < wEnd[t]

\* skipped batch: batchesSkipped++
WorkerSkip(t) ==
    /\ AtBatch(t)
    /\ ~Raises(opts.field)
    /\ SkipsBatch(opts, batches[wi[t] + 1])
    /\ batchesSkipped' = batchesSkipped + 1
    /\ wpc' = [wpc EXCEPT ![t] = "skipped"]
    /\ UNCHANGED <<notGenVars, opts, gpc, dimsN, batches, spins, launched, joined, threads, wStart,
                   wEnd, wi, localTriangles, allTriangles, resultMutex, batchesProcessed>>

\* a skipped batch that is not counted as processed
WorkerContinueUncounted(t) ==
    /\ Alive
    /\ wpc[t] = "skipped"
    /\ wi' = [wi EXCEPT ![t] = wi[t] + 1]
    /\ wpc' = [wpc EXCEPT ![t] = "loop"]
    /\ UNCHANGED <<notGenVars, opts, gpc, dimsN, batches, spins, launched, joined, threads, wStart,
                   wEnd, localTriangles, allTriangles, resultMutex, batchesProcessed,
                   batchesSkipped>>

\* skipped batch: batchesProcessed++; continue
WorkerCountSkipped(t) ==
    /\ Alive
    /\ wpc[t] = "skipped"
    /\ batchesProcessed' = batchesProcessed + 1
    /\ wi' = [wi EXCEPT ![t] = wi[t] + 1]
    /\ wpc' = [wpc EXCEPT ![t] = "loop"]
    /\ UNCHANGED <<notGenVars, opts, gpc, dimsN, batches, spins, launched, joined, threads, wStart,
                   wEnd, localTriangles, allTriangles, resultMutex, batchesSkipped>>

\* evaluate, extract, map to world space, append to the local buffer,
\* batchesProcessed++
WorkerExtract(t) ==
    /\ AtBatch(t)
    /\ ~Raises(opts.field)
    /\ ~SkipsBatch(opts, batches[wi[t] + 1])
    /\ \E g \in 1..MaxOverrun :
         /\ g > 1 => BatchOverruns(opts, batches[wi[t] + 1])
         /\ localTriangles' =
              [localTriangles EXCEPT
                 ![t] = localTriangles[t] \o BatchTriangles(opts, batches[wi[t] + 1], g)]
    /\ batchesProcessed' = batchesProcessed + 1
    /\ wi' = [wi EXCEPT ![t] = wi[t] + 1]
    /\ UNCHANGED <<notGenVars, opts, gpc, dimsN, batches, spins, launched, joined, threads, wpc,
                   wStart, wEnd, allTriangles, resultMutex, batchesSkipped>>

\* a read past the table row faults: the process is gone
WorkerFault(t) ==
    /\ AtBatch(t)
    /\ ~Raises(opts.field)
    /\ ~SkipsBatch(opts, batches[wi[t] + 1])
    /\ BatchOverruns(opts, batches[wi[t] + 1])
    /\ gpc' = "aborted"
    /\ UNCHANGED <<notGenVars, opts, dimsN, batches, spins, launched, joined, threads, wpc, wStart,
                   wEnd, wi, localTriangles, allTriangles, resultMutex, batchesProcessed,
                   batchesSkipped>>

\* sdf.evaluate throws in the thread function, which has no handler: the
\* exception leaves the thread and std::terminate ends the process
WorkerRaise(t) ==
    /\ AtBatch(t)
    /\ Raises(opts.field)
    /\ gpc' = "terminated"
    /\ UNCHANGED <<notGenVars, opts, dimsN, batches, spins, launched, joined, threads, wpc, wStart,
                   wEnd, wi, localTriangles, allTriangles, resultMutex, batchesProcessed,
                   batchesSkipped>>

\* std::lock_guard<std::mutex> lock(resultMutex) without waiting for the mutex
WorkerLockNoWait(t) ==
    /\ Alive
    /\ wpc[t] = "loop"
    /\ wi[t] >= wEnd[t]
    /\ resultMutex' = t
    /\ wpc' = [wpc EXCEPT ![t] = "merge"]
    /\ UNCHANGED <<notGenVars, opts, gpc, dimsN, batches, spins, launched, joined, threads, wStart,
                   wEnd, wi, localTriangles, allTriangles, batchesProcessed,
                   batchesSkipped>>

\* the mutex taken at the top of the thread function, before the loop is over
WorkerLockEarly(t) ==
    /\ Alive
    /\ wpc[t] = "loop"
    /\ resultMutex = 0
    /\ resultMutex' = t
    /\ wpc' = [wpc EXCEPT ![t] = "merge"]
    /\ UNCHANGED <<notGenVars, opts, gpc, dimsN, batches, spins, launched, joined, threads, wStart,
                   wEnd, wi, localTriangles, allTriangles, batchesProcessed,
                   batchesSkipped>>

\* std::lock_guard<std::mutex> lock(resultMutex)
WorkerLock(t) ==
    /\ Alive
    /\ wpc[t] = "loop"
    /\ wi[t] >= wEnd[t]
    /\ resultMutex = 0
    /\ resultMutex' = t
    /\ wpc' = [wpc EXCEPT ![t] = "merge"]
    /\ UNCHANGED <<notGenVars, opts, gpc, dimsN, batches, spins, launched, joined, threads, wStart,
                   wEnd, wi, localTriangles, allTriangles, batchesProcessed,
                   batchesSkipped>>

\* the local buffer inserted at the front of the shared vector
WorkerMergeFront(t) ==
    /\ Alive
    /\ wpc[t] = "merge"
    /\ allTriangles' = localTriangles[t] \o allTriangles
    /\ resultMutex' = 0
    /\ wpc' = [wpc EXCEPT ![t] = "done"]
    /\ UNCHANGED <<notGenVars, opts, gpc, dimsN, batches, spins, launched, joined, threads, wStart,
                   wEnd, wi, localTriangles, batchesProcessed, batchesSkipped>>

\* allTriangles.insert(end, local...); the guard releases the mutex
WorkerMerge(t) ==
    /\ Alive
    /\ wpc[t] = "merge"
    /\ allTriangles' = allTriangles \o localTriangles[t]
    /\ resultMutex' = 0
    /\ wpc' = [wpc EXCEPT ![t] = "done"]
    /\ UNCHANGED <<notGenVars, opts, gpc, dimsN, batches, spins, launched, joined, threads, wStart,
                   wEnd, wi, localTriangles, batchesProcessed, batchesSkipped>>

----------------------------------------------------------------------------
(* Idle values of the parts a specification does not use *)

TableIdle == tpc = "off" /\ tIndex = 0 /\ tPos = 0 /\ tEmitted = 0

FnIdle == fpc = "off" /\ fIn = <<>> /\ fOut = <<>>

Init == GenInit /\ TableIdle /\ FnIdle

Next ==
    \/ ComputeGrid
    \/ BuildBatches
    \/ BatchLoopSpin
    \/ LaunchStep
    \/ LaunchDone
    \/ JoinStep
    \/ Return
    \/ \E t \in Workers : WorkerSkip(t)
    \/ \E t \in Workers : WorkerCountSkipped(t)
    \/ \E t \in Workers : WorkerExtract(t)
    \/ \E t \in Workers : WorkerFault(t)
    \/ \E t \in Workers : WorkerRaise(t)
    \/ \E t \in Workers : WorkerLock(t)
    \/ \E t \in Workers : WorkerMerge(t)

Spec == Init /\ [][Next]_vars


----------------------------------------------------------------------------
(* The emission loop of extractSurface over one row of triTable *)

TableInit ==
    /\ tpc = "cell"
    /\ tIndex \in 0..(TableRows - 1)
    /\ tPos = 0
    /\ tEmitted = 0
    /\ GenIdle
    /\ FnIdle

\* if (cubeIndex == 0 || cubeIndex == 255) continue;
TableSkipCell ==
    /\ tpc = "cell"
    /\ tIndex = 0 \/ tIndex = 255
    /\ tpc' = "nocell"
    /\ UNCHANGED <<tIndex, tPos, tEmitted, notTableVars>>

\* const int* triIndices = triTable[cubeIndex]; i = 0
TableEnterLoop ==
    /\ tpc = "cell"
    /\ tIndex # 0 /\ tIndex # 255
    /\ tpc' = "loop"
    /\ UNCHANGED <<tIndex, tPos, tEmitted, notTableVars>>

\* triIndices[i] == -1: the loop ends
TableStop ==
    /\ tpc = "loop"
    /\ tPos < RowLen
    /\ TriIndex(tIndex, tPos) = -1
    /\ tpc' = "stopped"
    /\ UNCHANGED <<tIndex, tPos, tEmitted, notTableVars>>

\* three push_back from entries i, i+1, i+2 of the row; i += 3
TablePush ==
    /\ tpc = "loop"
    /\ tPos + 2 < RowLen
    /\ TriIndex(tIndex, tPos) # -1
    /\ tEmitted' = tEmitted + 1
    /\ tPos' = tPos + 3
    /\ UNCHANGED <<tpc, tIndex, notTableVars>>

\* the next read is past the 16 entries of the row
TableOverrun ==
    /\ tpc = "loop"
    /\ TriIndex(tIndex, Min(tPos, RowLen - 1)) # -1
    /\ tPos + 2 >= RowLen
    /\ tpc' = "overrun"
    /\ UNCHANGED <<tIndex, tPos, tEmitted, notTableVars>>

TableNext ==
    \/ TableSkipCell
    \/ TableEnterLoop
    \/ TableStop
    \/ TablePush
    \/ TableOverrun

TableSpec == TableInit /\ [][TableNext]_vars

----------------------------------------------------------------------------
(* The batch loops of generate as a function of the grid and batchSize *)

MaxDim == 4

MaxTile == 3

TilingInit ==
    /\ fpc = "call"
    /\ fIn \in [n : (1..MaxDim) \X (1..MaxDim) \X (1..MaxDim), batchSize : 1..MaxTile]
    /\ fOut = <<>>
    /\ GenIdle
    /\ TableIdle

TilingApply ==
    /\ fpc = "call"
    /\ fOut' = BatchList(fIn.n, fIn.batchSize)
    /\ fpc' = "done"
    /\ UNCHANGED <<fIn, notFnVars>>

TilingSpec == TilingInit /\ [][TilingApply]_vars

----------------------------------------------------------------------------
(* The skip test of processBatchRange on one batch *)

MaxCoord == 2

MaxCells == 2

MaxRadius == 2

SkipFields ==
    { [kind |-> "sphere", a |-> 0, b |-> 0, c |-> 0, d |-> r, s |-> 1] : r \in 1..MaxRadius }
    \cup { [kind |-> "plane", a |-> a, b |-> 0, c |-> 0, d |-> d, s |-> 1] :
             a \in {1, 3}, d \in {-1, 0} }

SkipInit ==
    /\ fpc = "call"
    /\ fIn \in [o : [field : SkipFields, step : {1, 2}, sparse : BOOLEAN,
                     bmin : (-MaxCoord..MaxCoord) \X (-MaxCoord..MaxCoord)
                            \X (-MaxCoord..MaxCoord)],
                b : { <<0, cx, 0, cy, 0, cz>> : cx \in 1..MaxCells, cy \in 1..MaxCells,
                                                cz \in 1..MaxCells }]
    /\ fOut = <<>>
    /\ GenIdle
    /\ TableIdle

SkipApply ==
    /\ fpc = "call"
    /\ fOut' = [can  |-> CanSkipBatch(fIn.o.field, BatchMin(fIn.o, fIn.b), BatchMax(fIn.o, fIn.b)),
                skip |-> SkipsBatch(fIn.o, fIn.b)]
    /\ fpc' = "done"
    /\ UNCHANGED <<fIn, notFnVars>>

SkipSpec == SkipInit /\ [][SkipApply]_vars

----------------------------------------------------------------------------
(* The x coordinate of the layer shared by two batches adjacent along x,
   in floating point.  A double is modelled as an integer multiple of a
   common unit kept to MantissaBits significant bits; every arithmetic
   operation rounds its exact result to nearest, ties to even. *)

MantissaBits == 4

MaxStepUnits == 9

MaxOrigin == 9

MaxSeamBatch == 3

MaxSeamIndex == 3

RECURSIVE Quantum(_, _)
\* the spacing of representable values at magnitude x
Quantum(x, q) == IF x \div q < Pow2(MantissaBits) THEN q ELSE Quantum(x, 2 * q)

RoundPos(x) ==
    LET q  == Quantum(x, 1)
        m  == x \div q
        r  == x - m * q
    IN  IF 2 * r < q THEN m * q
        ELSE IF 2 * r > q THEN (m + 1) * q
        ELSE IF m % 2 = 0 THEN m * q ELSE (m + 1) * q

\* the double nearest to the exact value x
Fl(x) == IF x < 0 THEN -RoundPos(-x) ELSE RoundPos(x)

FlMul(a, b) == Fl(a * b)

FlAdd(a, b) == Fl(a + b)

\* boundsMin.x + (x0 + bx) * step
GridCoord(origin, step, x0, bx) == FlAdd(origin, FlMul(x0 + bx, step))

\* boundsMin.x + x0 * step
BatchMinCoord(origin, step, x0) == FlAdd(origin, FlMul(x0, step))

\* v * scale + offset for a vertex whose batch-local x coordinate is vx
MapCoord(vx, step, offset) == FlAdd(FlMul(vx, step), offset)

SeamInit ==
    /\ fpc = "call"
    /\ fIn \in [step : 1..MaxStepUnits, origin : (-MaxOrigin)..MaxOrigin,
                batchSize : 1..MaxSeamBatch, index : 1..MaxSeamIndex]
    /\ Fl(fIn.step) = fIn.step
    /\ Fl(fIn.origin) = fIn.origin
    /\ Fl(fIn.index * fIn.batchSize) = fIn.index * fIn.batchSize
    /\ fOut = <<>>
    /\ GenIdle
    /\ TableIdle

\* both batches sample the shared layer: the last layer of the batch
\* [x0, x1] and the first layer of the batch that starts at x1
SeamSample ==
    /\ fpc = "call"
    /\ LET x1 == fIn.index * fIn.batchSize
           x0 == x1 - fIn.batchSize
       IN  fOut' = [gridA |-> GridCoord(fIn.origin, fIn.step, x0, x1 - x0),
                    gridB |-> GridCoord(fIn.origin, fIn.step, x1, 0)]
    /\ fpc' = "sampled"
    /\ UNCHANGED <<fIn, notFnVars>>

\* both batches map a vertex on an edge inside the shared layer: its local
\* x coordinate is x1 - x0 in the first batch and 0 in the second
SeamMap ==
    /\ fpc = "sampled"
    /\ LET x1 == fIn.index * fIn.batchSize
           x0 == x1 - fIn.batchSize
       IN  fOut' = [gridA |-> fOut.gridA,
                    gridB |-> fOut.gridB,
                    vertA |-> MapCoord(x1 - x0, fIn.step,
                                       BatchMinCoord(fIn.origin, fIn.step, x0)),
                    vertB |-> MapCoord(0, fIn.step,
                                       BatchMinCoord(fIn.origin, fIn.step, x1))]
    /\ fpc' = "mapped"
    /\ UNCHANGED <<fIn, notFnVars>>

SeamNext ==
    \/ SeamSample
    \/ SeamMap

SeamSpec == SeamInit /\ [][SeamNext]_vars

----------------------------------------------------------------------------
(* The step and the grid of generate as a function of the options.  Lengths
   are counted in units of 0.1, the default step. *)

\* largest extent of the caller's box on an axis
MaxStepExt == 2

\* largest |options.step|
MaxStep == 2

MaxSamples == 8

MaxStepBatch == 2

\* step = 0.1
DefaultStep == 1

\* std::cbrt(v) for v a perfect cube
Cbrt(v) == CHOOSE r \in 0..v : r * r * r = v

\* std::ceil(a / b) for b # 0
CeilQuot(a, b) == IF b > 0 THEN CeilDiv(a, b) ELSE CeilDiv(-a, -b)

\* options of generate whose cbrt(volume / samples) is a whole number of units
StepInputs ==
    { o \in [step : (-MaxStep)..MaxStep, samples : (-1)..MaxSamples,
             ext : (0..MaxStepExt) \X (0..MaxStepExt) \X (0..MaxStepExt),
             batchSize : 1..MaxStepBatch] :
        (o.step = 0 /\ o.samples > 0) =>
            LET volume == o.ext[1] * o.ext[2] * o.ext[3]
            IN  /\ volume % o.samples = 0
                /\ \E r \in 0..volume : r * r * r = volume \div o.samples }

StepInit ==
    /\ GenIdle
    /\ TableIdle
    /\ fpc = "step"
    /\ fIn \in StepInputs
    /\ fOut = [step |-> fIn.step, defaulted |-> FALSE, n |-> <<0, 0, 0>>,
               snapped |-> fIn.ext, batches |-> <<>>]

\* step = options.step; from samples when it is 0; 0.1 when it is still 0
StepResolve ==
    /\ fpc = "step"
    /\ LET volume == fIn.ext[1] * fIn.ext[2] * fIn.ext[3]
           s1 == IF fIn.step = 0 /\ fIn.samples > 0
                 THEN Cbrt(volume \div fIn.samples) ELSE fIn.step
       IN  fOut' = [fOut EXCEPT !.step = IF s1 = 0 THEN DefaultStep ELSE s1,
                                !.defaulted = (s1 = 0)]
    /\ fpc' = "dims"
    /\ UNCHANGED <<notFnVars, fIn>>

\* nx, ny, nz = int(ceil(extent / step)) + 1
StepGrid ==
    /\ fpc = "dims"
    /\ fOut' = [fOut EXCEPT !.n = [a \in 1..3 |-> CeilQuot(fIn.ext[a], fOut.step) + 1]]
    /\ fpc' = "snap"
    /\ UNCHANGED <<notFnVars, fIn>>

\* boundsMax = boundsMin + (n - 1) * step on every axis; snapped is the new
\* boundsMax - boundsMin
StepSnap ==
    /\ fpc = "snap"
    /\ fOut' = [fOut EXCEPT !.snapped = [a \in 1..3 |-> (fOut.n[a] - 1) * fOut.step]]
    /\ fpc' = "tiling"
    /\ UNCHANGED <<notFnVars, fIn>>

\* the batch loops
StepTile ==
    /\ fpc = "tiling"
    /\ fOut' = [fOut EXCEPT !.batches = BatchList(fOut.n, fIn.batchSize)]
    /\ fpc' = "launch"
    /\ UNCHANGED <<notFnVars, fIn>>

\* the launch loop starts a thread for every non-empty range of batches
StepLaunch ==
    /\ fpc = "launch"
    /\ fOut.batches # <<>>
    /\ fpc' = "working"
    /\ UNCHANGED <<notFnVars, fIn, fOut>>

\* no batch: no thread is started, nothing is joined, allTriangles is
\* returned empty
StepReturnEmpty ==
    /\ fpc = "launch"
    /\ fOut.batches = <<>>
    /\ fpc' = "returned"
    /\ UNCHANGED <<notFnVars, fIn, fOut>>

StepNext ==
    \/ StepResolve
    \/ StepGrid
    \/ StepSnap
    \/ StepTile
    \/ StepLaunch
    \/ StepReturnEmpty

StepSpec == StepInit /\ [][StepNext]_vars

----------------------------------------------------------------------------
(* Doubles with their special values.  A double is <<n, d>>: the rational
   n/d in lowest terms when d > 0, +infinity <<1, 0>>, -infinity <<-1, 0>>
   and NaN <<0, 0>>.  Finite arithmetic is exact; the sign of a zero is not
   kept. *)

DNaN == <<0, 0>>

DInf == <<1, 0>>

DNum(n) == <<n, 1>>

DHalf == <<1, 2>>

IsNaN(x) == x = DNaN

IsInf(x) == x[2] = 0 /\ x[1] # 0

DNeg(x) == <<-x[1], x[2]>>

\* x + y
DAdd(x, y) ==
    IF IsNaN(x) \/ IsNaN(y) THEN DNaN
    ELSE IF IsInf(x) THEN (IF IsInf(y) /\ y # x THEN DNaN ELSE x)
    ELSE IF IsInf(y) THEN y
    ELSE Rat(x[1] * y[2] + y[1] * x[2], x[2] * y[2])

\* x - y
DSub(x, y) == DAdd(x, DNeg(y))

\* x * y
DMul(x, y) ==
    IF IsNaN(x) \/ IsNaN(y) THEN DNaN
    ELSE IF IsInf(x) \/ IsInf(y)
         THEN (IF x[1] = 0 \/ y[1] = 0 THEN DNaN ELSE <<Sign(x[1]) * Sign(y[1]), 0>>)
    ELSE Rat(x[1] * y[1], x[2] * y[2])

\* x / y
DDiv(x, y) ==
    IF IsNaN(x) \/ IsNaN(y) THEN DNaN
    ELSE IF IsInf(x)
         THEN (IF IsInf(y) THEN DNaN ELSE <<x[1] * (IF y[1] < 0 THEN -1 ELSE 1), 0>>)
    ELSE IF IsInf(y) THEN DNum(0)
    ELSE IF y[1] = 0 THEN (IF x[1] = 0 THEN DNaN ELSE <<Sign(x[1]), 0>>)
    ELSE Rat(x[1] * y[2], x[2] * y[1])

\* x < y: false when an operand is NaN
DLess(x, y) ==
    /\ ~IsNaN(x)
    /\ ~IsNaN(y)
    /\ IF IsInf(x) /\ IsInf(y) THEN x[1] < y[1] ELSE x[1] * y[2] < y[1] * x[2]

\* x <= y: false when an operand is NaN
DLeq(x, y) == ~IsNaN(x) /\ ~IsNaN(y) /\ ~DLess(y, x)

\* std::min(a, b): (b < a) ? b : a
StdMin(a, b) == IF DLess(b, a) THEN b ELSE a

\* std::max(a, b): (a < b) ? b : a
StdMax(a, b) == IF DLess(a, b) THEN b ELSE a

\* clamp(value, min, max) == std::max(min, std::min(value, max))
Clamp(value, lo, hi) == StdMax(lo, StdMin(value, hi))

----------------------------------------------------------------------------
(* The boolean combinators of SDF3 on two tagged operands at one point.
   The operands are primitives sampled on the x axis, at (x, 0, 0). *)

\* largest |x| of the sample point
MaxPoint == 2

\* largest offset of a plane along x
MaxOffset == 1

\* largest radius of an ellipsoid of size (s, s, s)
MaxSize == 2

\* largest |k| given to SDF3::k
MaxTag == 1

\* plane(X, (c, 0, 0)): dot(p - point, n)
PlaneValue(c, x) == DSub(DNum(x), DNum(c))

\* ellipsoid((s, s, s)) at (x, 0, 0): k0 * (k0 - 1.0) / k1
EllipsoidValue(s, x) ==
    LET k0 == DDiv(DNum(Abs(x)), DNum(s))
        k1 == DDiv(DNum(Abs(x)), DNum(s * s))
    IN  DDiv(DMul(k0, DSub(k0, DNum(1))), k1)

\* "far" is SDF3(Function) with a function that returns +infinity
PrimValue(f, x) ==
    IF f.kind = "plane" THEN PlaneValue(f.c, x)
    ELSE IF f.kind = "ellipsoid" THEN EllipsoidValue(f.c, x)
    ELSE DInf

Operands ==
    { [kind |-> "plane", c |-> c] : c \in 0..MaxOffset }
    \cup { [kind |-> "ellipsoid", c |-> s] : s \in 1..MaxSize }
    \cup { [kind |-> "far", c |-> 0] }

\* hard union
HardUnion(a, b) == StdMin(a, b)

\* smooth union
SmoothUnion(a, b, k) ==
    LET h == Clamp(DAdd(DHalf, DDiv(DMul(DHalf, DSub(b, a)), k)), DNum(0), DNum(1))
    IN  DSub(DAdd(DMul(b, DSub(DNum(1), h)), DMul(a, h)),
             DMul(DMul(k, h), DSub(DNum(1), h)))

HardIntersection(a, b) == StdMax(a, b)

SmoothIntersection(a, b, k) ==
    LET h == Clamp(DSub(DHalf, DDiv(DMul(DHalf, DSub(b, a)), k)), DNum(0), DNum(1))
    IN  DAdd(DAdd(DMul(b, DSub(DNum(1), h)), DMul(a, h)),
             DMul(DMul(k, h), DSub(DNum(1), h)))

HardDifference(a, b) == StdMax(a, DNeg(b))

SmoothDifference(a, b, k) ==
    LET h == Clamp(DSub(DHalf, DDiv(DMul(DHalf, DAdd(a, b)), k)), DNum(0), DNum(1))
    IN  DAdd(DAdd(DMul(a, DSub(DNum(1), h)), DMul(DNeg(b), h)),
             DMul(DMul(k, h), DSub(DNum(1), h)))

\* the branch of the closure: if (k == 0.0) hard else smooth
TakesSmooth(k) == k # 0

\* one element of the result of the closure built by operator|, & or -
CombineValue(op, a, b, k) ==
    IF op = "union"
    THEN (IF TakesSmooth(k) THEN SmoothUnion(a, b, DNum(k)) ELSE HardUnion(a, b))
    ELSE IF op = "intersection"
    THEN (IF TakesSmooth(k) THEN SmoothIntersection(a, b, DNum(k))
          ELSE HardIntersection(a, b))
    ELSE (IF TakesSmooth(k) THEN SmoothDifference(a, b, DNum(k)) ELSE HardDifference(a, b))

CombineInit ==
    /\ GenIdle
    /\ TableIdle
    /\ fpc = "operands"
    /\ fIn \in [op : {"union", "intersection", "difference"}, a : Operands, b : Operands,
                ka : (-MaxTag)..MaxTag, kb : (-MaxTag)..MaxTag,
                x : (-MaxPoint)..MaxPoint]
    /\ fOut = [ta |-> 0, tb |-> 0, k |-> 0, smooth |-> FALSE, a |-> DNum(0), b |-> DNum(0),
               ab |-> DNum(0), ba |-> DNum(0)]

\* a.k(ka) and b.k(kb): copies of the operands with k_ set
CombineTag ==
    /\ fpc = "operands"
    /\ fOut' = [fOut EXCEPT !.ta = fIn.ka, !.tb = fIn.kb]
    /\ fpc' = "tagged"
    /\ UNCHANGED <<notFnVars, fIn>>

\* the operator: k = std::max(k_, other.k_) is captured by the closure
CombineBuild ==
    /\ fpc = "tagged"
    /\ fOut' = [fOut EXCEPT !.k = Max(fOut.ta, fOut.tb)]
    /\ fpc' = "built"
    /\ UNCHANGED <<notFnVars, fIn>>

\* the closure of (a op b) and that of (b op a) called on the point
CombineEvaluate ==
    /\ fpc = "built"
    /\ LET a == PrimValue(fIn.a, fIn.x)
           b == PrimValue(fIn.b, fIn.x)
       IN  fOut' = [fOut EXCEPT !.a = a, !.b = b, !.smooth = TakesSmooth(fOut.k),
                                !.ab = CombineValue(fIn.op, a, b, fOut.k),
                                !.ba = CombineValue(fIn.op, b, a, fOut.k)]
    /\ fpc' = "evaluated"
    /\ UNCHANGED <<notFnVars, fIn>>

CombineNext ==
    \/ CombineTag
    \/ CombineBuild
    \/ CombineEvaluate

CombineSpec == CombineInit /\ [][CombineNext]_vars

----------------------------------------------------------------------------
(* Field objects.  An SDF3 is [k, fn, by, zeroAxis]: its tag k_, its vecFunc_
   as the term fn that built it, and two history values: the operation that
   returned the object and whether that call was given an axis shorter than
   1e-10.  Points are triples of doubles; lengths are counted in units of
   1000.  Angles are whole quarter turns, whose sine and cosine are taken as
   exact. *)

\* most Field objects alive at once
MaxFields == 3

\* most points in a list given to evaluate
MaxPoints == 2

\* largest angle in quarter turns
MaxQuarter == 2

\* largest count of circularArray
MaxCount == 2

\* result(points.size(), 1e9)
CircularFar == 1000000

\* the z axis, sdf::Z
ZAxis == <<0, 0, 1>>

\* axis arguments: the zero vector and unit vectors along coordinate axes
Axes == {<<0, 0, 0>>, <<1, 0, 0>>, <<0, 0, 1>>, <<0, 0, -1>>}

QCos(q) == IF q % 4 = 0 THEN 1 ELSE IF q % 4 = 2 THEN -1 ELSE 0

QSin(q) == IF q % 4 = 1 THEN 1 ELSE IF q % 4 = 3 THEN -1 ELSE 0

\* std::acos of -1, 0 or 1, in quarter turns
QAcos(d) == IF d = 1 THEN 0 ELSE IF d = 0 THEN 1 ELSE 2

LengthSquared(v) == v[1] * v[1] + v[2] * v[2] + v[3] * v[3]

\* magnitude below 1e-10, for a vector with whole coordinates
IsShort(v) == LengthSquared(v) = 0

\* Vector3::normalized for the zero vector and for vectors along one axis
Normalized(v) ==
    IF IsShort(v) THEN <<0, 0, 0>>
    ELSE LET len == Abs(v[1]) + Abs(v[2]) + Abs(v[3])
         IN  <<v[1] \div len, v[2] \div len, v[3] \div len>>

Cross(u, v) ==
    <<u[2] * v[3] - u[3] * v[2], u[3] * v[1] - u[1] * v[3], u[1] * v[2] - u[2] * v[1]>>

Dot(u, v) == u[1] * v[1] + u[2] * v[2] + u[3] * v[3]

DAbs(x) == <<Abs(x[1]), x[2]>>

\* row . p for a row of whole numbers and a point of doubles
RowDot(r, p) ==
    DAdd(DAdd(DMul(p[1], DNum(r[1])), DMul(p[2], DNum(r[2]))), DMul(p[3], DNum(r[3])))

\* rotatePoint of rotate, with t = 1 - c
RotatePoint(a, c, s, p) ==
    LET t == 1 - c
    IN  << RowDot(<<t * a[1] * a[1] + c, t * a[1] * a[2] + s * a[3],
                    t * a[1] * a[3] - s * a[2]>>, p),
           RowDot(<<t * a[1] * a[2] - s * a[3], t * a[2] * a[2] + c,
                    t * a[2] * a[3] + s * a[1]>>, p),
           RowDot(<<t * a[1] * a[3] + s * a[2], t * a[2] * a[3] - s * a[1],
                    t * a[3] * a[3] + c>>, p) >>

\* the point circularArray gives to the field in round i of count
CircularPoint(i, count, o, p) ==
    LET c  == QCos((4 * i) \div count)
        s  == QSin((4 * i) \div count)
        dx == DSub(p[1], DNum(o))
    IN  << DAdd(DSub(DMul(DNum(c), dx), DMul(DNum(s), p[2])), DNum(o)),
           DAdd(DMul(DNum(s), dx), DMul(DNum(c), p[2])),
           p[3] >>

RECURSIVE Eval(_, _)
RECURSIVE CircularRounds(_, _, _, _)

\* rounds i .. count-1 of the loop of circularArray over the result so far
CircularRounds(fn, i, P, res) ==
    IF i >= fn.count \/ res.ub THEN res
    ELSE LET d == Eval(fn.f, [j \in 1..Len(P) |-> CircularPoint(i, fn.count, fn.o, P[j])])
         IN  IF d.ub \/ Len(d.out) < Len(P) THEN [ub |-> TRUE, out |-> <<>>]
             ELSE CircularRounds(fn, i + 1, P,
                      [ub |-> FALSE,
                       out |-> [j \in 1..Len(P) |-> StdMin(res.out[j], d.out[j])]])

\* vecFunc_(P): the values returned, or ub when the call reads a vector
\* past its end
Eval(fn, P) ==
    IF fn.op = "default" THEN [ub |-> FALSE, out |-> <<>>]
    ELSE IF fn.op = "plane"
    THEN [ub |-> FALSE, out |-> [i \in 1..Len(P) |-> DSub(P[i][1], DNum(fn.c))]]
    ELSE IF fn.op = "far" THEN [ub |-> FALSE, out |-> [i \in 1..Len(P) |-> DInf]]
    ELSE IF fn.op \in {"union", "intersection", "difference"}
    THEN LET a == Eval(fn.l, P)
             b == Eval(fn.r, P)
         IN  IF a.ub \/ b.ub \/ Len(a.out) < Len(P) \/ Len(b.out) < Len(P)
             THEN [ub |-> TRUE, out |-> <<>>]
             ELSE [ub |-> FALSE,
                   out |-> [i \in 1..Len(P) |-> CombineValue(fn.op, a.out[i], b.out[i], fn.k)]]
    ELSE IF fn.op = "translate"
    THEN Eval(fn.f, [i \in 1..Len(P) |-> <<DSub(P[i][1], DNum(fn.o)), P[i][2], P[i][3]>>])
    ELSE IF fn.op = "rotate"
    THEN Eval(fn.f, [i \in 1..Len(P) |-> RotatePoint(fn.a, fn.c, fn.s, P[i])])
    ELSE IF fn.op = "dilate"
    THEN LET r == Eval(fn.f, P)
         IN  [ub |-> r.ub, out |-> [i \in 1..Len(r.out) |-> DSub(r.out[i], DNum(fn.r))]]
    ELSE IF fn.op = "shell"
    THEN LET r == Eval(fn.f, P)
         IN  [ub |-> r.ub, out |-> [i \in 1..Len(r.out) |-> DSub(DAbs(r.out[i]), DNum(fn.r))]]
    ELSE IF fn.op = "blend"
    THEN LET a == Eval(fn.l, P)
             b == Eval(fn.r, P)
         IN  IF a.ub \/ b.ub \/ Len(a.out) < Len(P) \/ Len(b.out) < Len(P)
             THEN [ub |-> TRUE, out |-> <<>>]
             ELSE [ub |-> FALSE,
                   out |-> [i \in 1..Len(P) |->
                              DAdd(DMul(a.out[i], DSub(DNum(1), DNum(fn.k))),
                                   DMul(b.out[i], DNum(fn.k)))]]
    ELSE CircularRounds(fn, 0, P,
                        [ub |-> FALSE, out |-> [j \in 1..Len(P) |-> DNum(CircularFar)]])

\* the point lists given to evaluate
PointLists ==
    LET pt(x) == <<DNum(x), DNum(0), DNum(0)>>
    IN  { [i \in 1..n |-> pt(i - 1)] : n \in 0..MaxPoints }

\* what a read past the end of a vector can give
GarbageValues == {DNum(0), DNaN}

Made(k, fn, by, zero) == [k |-> k, fn |-> fn, by |-> by, zeroAxis |-> zero]

\* SDF3(): k_ = 0, a function that returns an empty vector
DefaultField == Made(0, [op |-> "default"], "new", FALSE)

\* the object rotate builds from the normalized axis
RotateBy(f, q, axis, by, zero) ==
    Made(0, [op |-> "rotate", a |-> Normalized(axis), c |-> QCos(q), s |-> QSin(q),
             f |-> f.fn], by, zero)

Orient(f, target) ==
    LET dst == Normalized(target)
        sum == <<ZAxis[1] + dst[1], ZAxis[2] + dst[2], ZAxis[3] + dst[3]>>
        dif == <<ZAxis[1] - dst[1], ZAxis[2] - dst[2], ZAxis[3] - dst[3]>>
    IN  IF IsShort(dif) THEN Made(f.k, f.fn, "orient", IsShort(target))
        ELSE IF IsShort(sum) THEN RotateBy(f, 2, <<1, 0, 0>>, "orient", IsShort(target))
        ELSE RotateBy(f, QAcos(Dot(ZAxis, dst)), Cross(ZAxis, dst), "orient", IsShort(target))

NoEval == [f |-> DefaultField, pts |-> <<>>, out |-> <<>>, garbage |-> FALSE]

FieldInit ==
    /\ GenIdle
    /\ TableIdle
    /\ fpc = "fields"
    /\ fIn = {}
    /\ fOut = NoEval

\* SDF3 f; the new object joins the live ones, which are untouched
NewDefault ==
    /\ fpc = "fields"
    /\ Cardinality(fIn) < MaxFields
    /\ fIn' = fIn \cup {DefaultField}
    /\ UNCHANGED <<notFnVars, fpc, fOut>>

\* plane(X, (c, 0, 0)), or SDF3(Function) with a function returning +infinity
NewPrimitive ==
    /\ fpc = "fields"
    /\ Cardinality(fIn) < MaxFields
    /\ \E fn \in { [op |-> "plane", c |-> c] : c \in 0..MaxOffset } \cup { [op |-> "far"] } :
         fIn' = fIn \cup
           {Made(0, fn, "new", FALSE)}
    /\ UNCHANGED <<notFnVars, fpc, fOut>>

\* SDF3::k: a copy of the object with k_ set
CallWithK ==
    /\ fpc = "fields"
    /\ Cardinality(fIn) < MaxFields
    /\ \E f \in fIn, k \in (-MaxTag)..MaxTag :
         fIn' = fIn \cup
           {Made(k, f.fn, "k", FALSE)}
    /\ UNCHANGED <<notFnVars, fpc, fOut>>

\* operator|, operator&, operator-: k = std::max(k_, other.k_) is captured
CallCombine ==
    /\ fpc = "fields"
    /\ Cardinality(fIn) < MaxFields
    /\ \E a \in fIn, b \in fIn, op \in {"union", "intersection", "difference"} :
         fIn' = fIn \cup
           {Made(0, [op |-> op, k |-> Max(a.k, b.k), l |-> a.fn, r |-> b.fn], op, FALSE)}
    /\ UNCHANGED <<notFnVars, fpc, fOut>>

\* translate by (o, 0, 0)
CallTranslate ==
    /\ fpc = "fields"
    /\ Cardinality(fIn) < MaxFields
    /\ \E f \in fIn, o \in 1..MaxOffset :
         fIn' = fIn \cup
           {Made(0, [op |-> "translate", o |-> o, f |-> f.fn], "translate", FALSE)}
    /\ UNCHANGED <<notFnVars, fpc, fOut>>

\* rotate
CallRotate ==
    /\ fpc = "fields"
    /\ Cardinality(fIn) < MaxFields
    /\ \E f \in fIn, q \in 0..MaxQuarter, axis \in Axes :
         fIn' = fIn \cup
           {RotateBy(f, q, axis, "rotate", IsShort(axis))}
    /\ UNCHANGED <<notFnVars, fpc, fOut>>

\* orient
CallOrient ==
    /\ fpc = "fields"
    /\ Cardinality(fIn) < MaxFields
    /\ \E f \in fIn, target \in Axes :
         fIn' = fIn \cup
           {Orient(f, target)}
    /\ UNCHANGED <<notFnVars, fpc, fOut>>

\* dilate
CallDilate ==
    /\ fpc = "fields"
    /\ Cardinality(fIn) < MaxFields
    /\ \E f \in fIn, r \in 1..MaxOffset :
         fIn' = fIn \cup
           {Made(0, [op |-> "dilate", r |-> r, f |-> f.fn], "dilate", FALSE)}
    /\ UNCHANGED <<notFnVars, fpc, fOut>>

\* shell
CallShell ==
    /\ fpc = "fields"
    /\ Cardinality(fIn) < MaxFields
    /\ \E f \in fIn, t \in 1..MaxOffset :
         fIn' = fIn \cup
           {Made(0, [op |-> "shell", r |-> t, f |-> f.fn], "shell", FALSE)}
    /\ UNCHANGED <<notFnVars, fpc, fOut>>

\* blend
CallBlend ==
    /\ fpc = "fields"
    /\ Cardinality(fIn) < MaxFields
    /\ \E a \in fIn, b \in fIn, k \in 0..MaxTag :
         fIn' = fIn \cup
           {Made(0, [op |-> "blend", k |-> k, l |-> a.fn, r |-> b.fn], "blend", FALSE)}
    /\ UNCHANGED <<notFnVars, fpc, fOut>>

\* circularArray, for counts whose rounds turn by whole quarter turns
CallCircularArray ==
    /\ fpc = "fields"
    /\ Cardinality(fIn) < MaxFields
    /\ \E f \in fIn, count \in { n \in 0..MaxCount : n = 0 \/ 4 % n = 0 }, o \in 0..MaxOffset :
         fIn' = fIn \cup
           {Made(0, [op |-> "circular", count |-> count, o |-> o, f |-> f.fn],
                 "circularArray", FALSE)}
    /\ UNCHANGED <<notFnVars, fpc, fOut>>

\* f.evaluate(P) without a read past the end of a vector
Evaluate ==
    /\ fpc = "fields"
    /\ \E f \in fIn, P \in PointLists :
         /\ ~Eval(f.fn, P).ub
         /\ fOut' = [f |-> f, pts |-> P, out |-> Eval(f.fn, P).out, garbage |-> FALSE]
    /\ UNCHANGED <<notFnVars, fpc, fIn>>

\* f.evaluate(P) reads a vector past its end and goes on with what it read
EvaluateGarbage ==
    /\ fpc = "fields"
    /\ \E f \in fIn, P \in PointLists :
         /\ Eval(f.fn, P).ub
         /\ \E g \in [1..Len(P) -> GarbageValues] :
              fOut' = [f |-> f, pts |-> P, out |-> g, garbage |-> TRUE]
    /\ UNCHANGED <<notFnVars, fpc, fIn>>

\* f.evaluate(P) reads a vector past its end and the process faults
EvaluateFault ==
    /\ fpc = "fields"
    /\ \E f \in fIn, P \in PointLists :
         /\ Eval(f.fn, P).ub
         /\ fOut' = [f |-> f, pts |-> P, out |-> <<>>, garbage |-> FALSE]
    /\ fpc' = "faulted"
    /\ UNCHANGED <<notFnVars, fIn>>

FieldNext ==
    \/ NewDefault
    \/ NewPrimitive
    \/ CallWithK
    \/ CallCombine
    \/ CallTranslate
    \/ CallRotate
    \/ CallOrient
    \/ CallDilate
    \/ CallShell
    \/ CallBlend
    \/ CallCircularArray
    \/ Evaluate
    \/ EvaluateGarbage
    \/ EvaluateFault

FieldSpec == FieldInit /\ [][FieldNext]_vars

----------------------------------------------------------------------------
(* MeshGenerator::estimateBounds.  The box is followed through its width,
   equal on the three axes: width = 20 * 2^two / 15^fif.  What the
   field answers on the 16^3 grid is any of: no point within the threshold
   (the box doubles), points spanning 15 of the 16 layers (the width stays),
   a single point (the width becomes one step) and points in the first and
   the last layer (the width grows by one step).  With at most MaxShrink
   steps that divide the width by 15, two widths of the model are equal or
   differ by far more than the tolerance, so that the thresholds are closer
   than 1e-10 exactly when the widths are equal. *)

\* most answers followed that divide the width by 15
MaxShrink == 2

\* for (iteration = 0; iteration < 32; ++iteration)
MaxIterations == 32

\* the largest binary exponent of a finite double
MaxExponent == 1023

Responses == {"none", "same", "one", "grow"}

\* the width after the answer r, as the pair of exponents <<two, fif>>
NextWidth(w, r) ==
    IF r = "none" THEN <<w[1] + 1, w[2]>>
    ELSE IF r = "same" THEN w
    ELSE IF r = "one" THEN <<w[1], w[2] + 1>>
    ELSE <<w[1] + 4, w[2] + 1>>

\* std::abs(threshold - prevThreshold) < 1e-10
ThresholdClose(e) == e.hasPrev /\ e.w = e.prev

\* the box is finite: its width is at most 20 * 2^two < 2^(5 + two)
FiniteBox(e) == 5 + e.w[1] <= MaxExponent

EstimateInit ==
    /\ GenIdle
    /\ TableIdle
    /\ fpc = "estimating"
    /\ fIn \in [short : BOOLEAN]
    /\ fOut = [iteration |-> 0, sampled |-> 0, w |-> <<0, 0>>, hasPrev |-> FALSE,
               prev |-> <<0, 0>>, garbage |-> FALSE, why |-> "running"]

\* the width after one more iteration that sampled and got the answer r
Sampled(e, r, garbage) ==
    [e EXCEPT !.iteration = e.iteration + 1, !.sampled = e.sampled + 1,
              !.hasPrev = TRUE, !.prev = e.w, !.w = NextWidth(e.w, r), !.garbage = garbage]

\* an answer the bounds of the model can follow
Followed(e, r) == r \in {"one", "grow"} => e.w[2] < MaxShrink

\* the thresholds are closer than 1e-10: break, return the box
EstimateBreak ==
    /\ fpc = "estimating"
    /\ fOut.iteration < MaxIterations
    /\ ThresholdClose(fOut)
    /\ fOut' = [fOut EXCEPT !.why = "close"]
    /\ fpc' = "estimated"
    /\ UNCHANGED <<notFnVars, fIn>>

\* the loop has run 32 times: return the box
EstimateExhaust ==
    /\ fpc = "estimating"
    /\ fOut.iteration = MaxIterations
    /\ fOut' = [fOut EXCEPT !.why = "exhausted"]
    /\ fpc' = "estimated"
    /\ UNCHANGED <<notFnVars, fIn>>

\* one iteration: sample the grid, evaluate, shrink or grow the box
EstimateSample ==
    /\ fpc = "estimating"
    /\ fOut.iteration < MaxIterations
    /\ ~ThresholdClose(fOut)
    /\ ~fIn.short
    /\ \E r \in Responses : Followed(fOut, r) /\ fOut' = Sampled(fOut, r, FALSE)
    /\ UNCHANGED <<notFnVars, fpc, fIn>>

\* the field returned fewer values than points: values[i] is read past the
\* end and the iteration goes on with what the reads gave
EstimateGarbage ==
    /\ fpc = "estimating"
    /\ fOut.iteration < MaxIterations
    /\ ~ThresholdClose(fOut)
    /\ fIn.short
    /\ \E r \in Responses : Followed(fOut, r) /\ fOut' = Sampled(fOut, r, TRUE)
    /\ UNCHANGED <<notFnVars, fpc, fIn>>

\* the field returned fewer values than points: the read faults
EstimateFault ==
    /\ fpc = "estimating"
    /\ fOut.iteration < MaxIterations
    /\ ~ThresholdClose(fOut)
    /\ fIn.short
    /\ fOut' = [fOut EXCEPT !.why = "fault"]
    /\ fpc' = "faulted"
    /\ UNCHANGED <<notFnVars, fIn>>

EstimateNext ==
    \/ EstimateBreak
    \/ EstimateExhaust
    \/ EstimateSample
    \/ EstimateGarbage
    \/ EstimateFault

EstimateSpec == EstimateInit /\ [][EstimateNext]_vars

----------------------------------------------------------------------------
(* The body of the cell loop of extractSurface on one cell: a volume of
   2 x 2 x 2 values, whose only cell is (0, 0, 0). *)

\* largest |value| of the volume
MaxCellValue == 3

CellDims == <<2, 2, 2>>

CellInit ==
    /\ GenIdle
    /\ TableIdle
    /\ fpc = "cell"
    /\ fIn \in [volume : [1..8 -> {-MaxCellValue, 0, MaxCellValue}], level : {0, 1}]
    /\ fOut = [values |-> <<>>, cubeIndex |-> 0, edgeVertices |-> <<>>, edges |-> <<>>,
               triangles |-> <<>>]

\* values[0..7] are read from the volume and cubeIndex is formed
CellBegin ==
    /\ fpc = "cell"
    /\ LET values == CellValues(fIn.volume, CellDims, 0, 0, 0)
       IN  fOut' = [fOut EXCEPT !.values = values,
                                !.cubeIndex = CubeIndex(values, fIn.level)]
    /\ fpc' = "indexed"
    /\ UNCHANGED <<notFnVars, fIn>>

\* if (cubeIndex == 0 || cubeIndex == 255) continue;
CellContinue ==
    /\ fpc = "indexed"
    /\ fOut.cubeIndex = 0 \/ fOut.cubeIndex = 255
    /\ fpc' = "skipped"
    /\ UNCHANGED <<notFnVars, fIn, fOut>>

\* edgeVertices[0..11]
CellInterpolate ==
    /\ fpc = "indexed"
    /\ fOut.cubeIndex # 0 /\ fOut.cubeIndex # 255
    /\ fOut' = [fOut EXCEPT
                  !.edgeVertices = EdgeVertices(fOut.values, CellCorners(0, 0, 0), fIn.level)]
    /\ fpc' = "edges"
    /\ UNCHANGED <<notFnVars, fIn>>

\* the emission loop; edges are the entries of the row it read
CellEmit ==
    /\ fpc = "edges"
    /\ \E g \in 1..MaxOverrun :
         /\ g > 1 => ~RowTerminates(fOut.cubeIndex)
         /\ fOut' = [fOut EXCEPT
                       !.edges = [j \in 1..(3 * RowTriangles(fOut.cubeIndex)) |->
                                    TriIndex(fOut.cubeIndex, j - 1)],
                       !.triangles = CellTriangles(fOut.values, CellCorners(0, 0, 0),
                                                   fIn.level, g)]
    /\ fpc' = "emitted"
    /\ UNCHANGED <<notFnVars, fIn>>

\* a read past the table row faults
CellFault ==
    /\ fpc = "edges"
    /\ ~RowTerminates(fOut.cubeIndex)
    /\ fpc' = "faulted"
    /\ UNCHANGED <<notFnVars, fIn, fOut>>

CellNext ==
    \/ CellBegin
    \/ CellContinue
    \/ CellInterpolate
    \/ CellEmit
    \/ CellFault

CellSpec == CellInit /\ [][CellNext]_vars

----------------------------------------------------------------------------
(* MarchingCubes::vertexInterp on one edge of the unit cell *)

\* largest |v1|, |v2|
MaxInterp == 3

\* largest level
MaxLevel == 1

InterpInit ==
    /\ GenIdle
    /\ TableIdle
    /\ fpc = "call"
    /\ fIn \in [isolevel : 0..MaxLevel, v1 : (-MaxInterp)..MaxInterp,
                v2 : (-MaxInterp)..MaxInterp, e : 1..12]
    /\ fOut = <<>>

InterpApply ==
    /\ fpc = "call"
    /\ LET p1 == CornerOffsets[EdgeCorners[fIn.e][1] + 1]
           p2 == CornerOffsets[EdgeCorners[fIn.e][2] + 1]
       IN  fOut' = [p1 |-> p1, p2 |-> p2,
                    vertex |-> VertexInterp(fIn.isolevel, p1, p2, fIn.v1, fIn.v2),
                    divides |-> InterpDivides(fIn.isolevel, fIn.v1, fIn.v2),
                    divisor |-> fIn.v2 - fIn.v1]
    /\ fpc' = "done"
    /\ UNCHANGED <<notFnVars, fIn>>

InterpSpec == InterpInit /\ [][InterpApply]_vars

----------------------------------------------------------------------------
(* The iterations of estimateBounds on the box itself, in exact arithmetic.
   A vector is a triple of doubles.  The field answers every point, and what
   it answers is any list of at most two of the grid points NearIndices as
   the samples within the threshold.  Runs are followed for MaxBoxShrink
   shrinking and MaxBoxGrow growing iterations, far fewer than 32; two
   thresholds of such a run are equal or differ by more than 1e-10. *)

\* most iterations followed that find a sample within the threshold
MaxBoxShrink == 2

\* most iterations followed that find none
MaxBoxGrow == 1

\* const int samples = 16
GridSamples == 16

\* grid indices (x, y, z) of samples, in the order of the sampling loops
NearIndices == << <<0, 0, 0>>, <<14, 14, 14>>, <<7, 3, 15>>, <<15, 15, 15>> >>

NearLists ==
    {<<>>} \cup { <<NearIndices[i]>> : i \in 1..Len(NearIndices) }
    \cup { l \in { <<NearIndices[i], NearIndices[j]>> :
                     i \in 1..Len(NearIndices), j \in 1..Len(NearIndices) } :
             \E i \in 1..Len(NearIndices), j \in 1..Len(NearIndices) :
                i < j /\ l = <<NearIndices[i], NearIndices[j]>> }

VAdd(u, v) == [a \in 1..3 |-> DAdd(u[a], v[a])]

VSub(u, v) == [a \in 1..3 |-> DSub(u[a], v[a])]

\* Vector3 * double
VScale(v, s) == [a \in 1..3 |-> DMul(v[a], s)]

\* Vector3::min
VMin(u, v) == [a \in 1..3 |-> StdMin(u[a], v[a])]

\* Vector3::max
VMax(u, v) == [a \in 1..3 |-> StdMax(u[a], v[a])]

\* step = (boundsMax - boundsMin) / (samples - 1)
GridStep(lo, hi) == [a \in 1..3 |-> DDiv(DSub(hi[a], lo[a]), DNum(GridSamples - 1))]

\* the grid point with indices idx
SamplePoint(lo, step, idx) == [a \in 1..3 |-> DAdd(lo[a], DMul(DNum(idx[a]), step[a]))]

\* the loop over the samples within the threshold: <<newMin, newMax>>
RECURSIVE NearBox(_, _, _)
NearBox(newMin, newMax, pts) ==
    IF pts = <<>> THEN <<newMin, newMax>>
    ELSE NearBox(VMin(newMin, Head(pts)), VMax(newMax, Head(pts)), Tail(pts))

\* a margin of the whole step
MarginWhole(step) == step

\* margin = step * 0.5
Margin(step) == VScale(step, DHalf)

\* the box shrunk inwards by the margin
ShrunkInwards(lo, hi, step, pts) ==
    LET nb == NearBox(hi, lo, pts)
    IN  <<VAdd(nb[1], Margin(step)), VSub(nb[2], Margin(step))>>

\* foundAny: boundsMin = newMin - margin, boundsMax = newMax + margin
Shrunk(lo, hi, step, pts) ==
    LET nb == NearBox(hi, lo, pts)
    IN  <<VSub(nb[1], Margin(step)), VAdd(nb[2], Margin(step))>>

\* !foundAny: boundsMin = center - size, boundsMax = center + size
Expanded(lo, hi) ==
    LET center == VScale(VAdd(lo, hi), DHalf)
        size   == VSub(hi, lo)
    IN  <<VSub(center, size), VAdd(center, size)>>

RECURSIVE Pow15(_)
Pow15(k) == IF k = 0 THEN 1 ELSE 15 * Pow15(k - 1)

\* the squared length of step after k shrinking iterations, up to a constant
\* factor: each extent is a whole multiple of 20 / 15^k
StepLength2(lo, hi, k) ==
    LET v(a) == (DSub(hi[a], lo[a])[1] * Pow15(k)) \div (20 * DSub(hi[a], lo[a])[2])
    IN  Rat(v(1) * v(1) + v(2) * v(2) + v(3) * v(3), Pow15(2 * k))

\* std::abs(threshold - prevThreshold) < 1e-10
BoxClose(e) == e.hasPrev /\ StepLength2(e.lo, e.hi, e.shrinks) = e.prev

BoxInit ==
    /\ GenIdle
    /\ TableIdle
    /\ fpc = "box"
    /\ fIn \in [short : BOOLEAN]
    /\ fOut = [lo |-> <<DNum(-10), DNum(-10), DNum(-10)>>,
               hi |-> <<DNum(10), DNum(10), DNum(10)>>,
               iteration |-> 0, hasPrev |-> FALSE, prev |-> <<0, 1>>,
               shrinks |-> 0, grows |-> 0, found |-> <<>>, garbage |-> FALSE]

\* the thresholds are closer than 1e-10: break and return the box
BoxBreak ==
    /\ fpc = "box"
    /\ fOut.iteration < MaxIterations
    /\ BoxClose(fOut)
    /\ fpc' = "returned"
    /\ UNCHANGED <<notFnVars, fIn, fOut>>

\* one iteration: sample, evaluate, find the samples within the threshold,
\* grow or shrink the box.  With a field that returns fewer values than
\* points the samples found are what the reads past the end give.
BoxIterate ==
    /\ fpc = "box"
    /\ fOut.iteration < MaxIterations
    /\ ~BoxClose(fOut)
    /\ \E near \in NearLists :
         LET step == GridStep(fOut.lo, fOut.hi)
             pts  == [i \in 1..Len(near) |-> SamplePoint(fOut.lo, step, near[i])]
             box  == IF pts = <<>> THEN Expanded(fOut.lo, fOut.hi)
                     ELSE Shrunk(fOut.lo, fOut.hi, step, pts)
         IN  /\ pts = <<>> => fOut.grows < MaxBoxGrow
             /\ pts # <<>> => fOut.shrinks < MaxBoxShrink
             /\ fOut' = [lo |-> box[1], hi |-> box[2],
                         iteration |-> fOut.iteration + 1, hasPrev |-> TRUE,
                         prev |-> StepLength2(fOut.lo, fOut.hi, fOut.shrinks),
                         shrinks |-> fOut.shrinks + (IF pts = <<>> THEN 0 ELSE 1),
                         grows |-> fOut.grows + (IF pts = <<>> THEN 1 ELSE 0),
                         found |-> pts, garbage |-> fIn.short]
    /\ UNCHANGED <<notFnVars, fpc, fIn>>

\* the field returned fewer values than points: the read of values[i] faults
BoxFault ==
    /\ fpc = "box"
    /\ fOut.iteration < MaxIterations
    /\ ~BoxClose(fOut)
    /\ fIn.short
    /\ fpc' = "faulted"
    /\ UNCHANGED <<notFnVars, fIn, fOut>>

BoxNext ==
    \/ BoxBreak
    \/ BoxIterate
    \/ BoxFault

BoxSpec == BoxInit /\ [][BoxNext]_vars

----------------------------------------------------------------------------
(* generate run twice on the same 1-Lipschitz field and grid, once with
   sparse = false and once with sparse = true.  The batches are processed in
   list order; which worker processes a batch does not change what the batch
   contributes. *)

\* largest number of cells of the grid on an axis
MaxSparseCells == 2

\* largest |d| of the planes
MaxSparseOffset == 2

\* planes f(p) = +-p.x + d, +-p.y + d, +-p.z + d: |f(p) - f(q)| <= |p - q|
LipschitzFields ==
    { [kind |-> "plane", a |-> n[1], b |-> n[2], c |-> n[3], d |-> d, s |-> 1] :
        n \in { <<1, 0, 0>>, <<-1, 0, 0>>, <<0, 1, 0>>, <<0, -1, 0>>, <<0, 0, 1>>,
                <<0, 0, -1>> },
        d \in (-MaxSparseOffset)..MaxSparseOffset }

RECURSIVE ReferenceMesh(_, _, _)
\* the batches of bl processed one after the other in list order
ReferenceMesh(o, bl, g) ==
    IF bl = <<>> THEN <<>>
    ELSE (IF SkipsBatch(o, Head(bl)) THEN <<>> ELSE BatchTriangles(o, Head(bl), g))
         \o ReferenceMesh(o, Tail(bl), g)

\* the options of the run with options.sparse = sp
SparseOptions(sp) ==
    [step |-> fIn.step, bmin |-> fIn.bmin, field |-> fIn.field, sparse |-> sp]

\* the batch list of both runs
SparseBatches == BatchList([a \in 1..3 |-> fIn.cells[a] + 1], fIn.batchSize)

\* a batch the run with options.sparse = sp does not skip has a cell whose
\* emission loop runs off its table row
SparseOverruns(sp) ==
    \E i \in 1..Len(SparseBatches) :
        /\ ~SkipsBatch(SparseOptions(sp), SparseBatches[i])
        /\ BatchOverruns(SparseOptions(sp), SparseBatches[i])

\* batchesSkipped of the run with options.sparse = sp
SparseSkipped(sp) ==
    Cardinality({ i \in 1..Len(SparseBatches) : SkipsBatch(SparseOptions(sp), SparseBatches[i]) })

SparseInit ==
    /\ GenIdle
    /\ TableIdle
    /\ fpc = "dense"
    /\ fIn \in [field : LipschitzFields, step : {1, 2}, bmin : {<<-1, -1, -1>>},
                cells : (1..MaxSparseCells) \X (1..MaxSparseCells) \X (1..MaxSparseCells),
                batchSize : 1..2]
    /\ fOut = [dense |-> <<>>, denseSkipped |-> 0, sparse |-> <<>>, sparseSkipped |-> 0]

\* generate with sparse = false returns
SparseDense ==
    /\ fpc = "dense"
    /\ \E g \in 1..MaxOverrun :
         /\ g > 1 => SparseOverruns(FALSE)
         /\ fOut' = [fOut EXCEPT !.dense = ReferenceMesh(SparseOptions(FALSE), SparseBatches, g),
                                 !.denseSkipped = SparseSkipped(FALSE)]
    /\ fpc' = "sparse"
    /\ UNCHANGED <<notFnVars, fIn>>

\* generate with sparse = false faults on a read past a table row
SparseDenseFault ==
    /\ fpc = "dense"
    /\ SparseOverruns(FALSE)
    /\ fpc' = "faulted"
    /\ UNCHANGED <<notFnVars, fIn, fOut>>

\* generate with sparse = true returns
SparseSkipping ==
    /\ fpc = "sparse"
    /\ \E g \in 1..MaxOverrun :
         /\ g > 1 => SparseOverruns(TRUE)
         /\ fOut' = [fOut EXCEPT !.sparse = ReferenceMesh(SparseOptions(TRUE), SparseBatches, g),
                                 !.sparseSkipped = SparseSkipped(TRUE)]
    /\ fpc' = "compared"
    /\ UNCHANGED <<notFnVars, fIn>>

\* generate with sparse = true faults on a read past a table row
SparseSkippingFault ==
    /\ fpc = "sparse"
    /\ SparseOverruns(TRUE)
    /\ fpc' = "faulted"
    /\ UNCHANGED <<notFnVars, fIn, fOut>>

SparseNext ==
    \/ SparseDense
    \/ SparseDenseFault
    \/ SparseSkipping
    \/ SparseSkippingFault

SparseSpec == SparseInit /\ [][SparseNext]_vars

----------------------------------------------------------------------------
(* The iterations of estimateBounds on the box in floating point.  A
   coordinate is a whole number of units, FlOne units making 1.0, kept to
   MantissaBits significant bits; every operation rounds its exact result to
   nearest, ties to even.  The samples within the threshold are chosen as in
   the exact model.  The threshold is followed through the squared length of
   step, and two thresholds of a run are equal or differ by more than 1e-10.
   Runs are followed for MaxFlShrink shrinking and MaxFlGrow growing
   iterations, in which every value met is zero or at least
   2^(MantissaBits - 1) units, so that no result is below the unit. *)

\* most iterations followed that find a sample within the threshold
MaxFlShrink == 2

\* most iterations followed that find none
MaxFlGrow == 1

\* the units of 1.0
FlOne == 16 * 16 * 16

RECURSIVE QuantumOf(_, _, _)
\* the spacing of representable values at the magnitude of n / d
QuantumOf(n, d, q) ==
    IF n < Pow2(MantissaBits) * q * d THEN q ELSE QuantumOf(n, d, 2 * q)

\* the double nearest to n / d, for n >= 0 and d > 0
RoundQuotPos(n, d) ==
    LET q == QuantumOf(n, d, 1)
        m == n \div (q * d)
        r == n - m * q * d
    IN  IF 2 * r < q * d THEN m * q
        ELSE IF 2 * r > q * d THEN (m + 1) * q
        ELSE IF m % 2 = 0 THEN m * q ELSE (m + 1) * q

\* a / d in doubles, d > 0
FlDiv(a, d) == IF a < 0 THEN -RoundQuotPos(-a, d) ELSE RoundQuotPos(a, d)

\* step = (boundsMax - boundsMin) / (samples - 1)
FlGridStep(lo, hi) == [a \in 1..3 |-> FlDiv(FlAdd(hi[a], -lo[a]), GridSamples - 1)]

\* boundsMin + index * step
FlSamplePoint(lo, step, idx) == [a \in 1..3 |-> FlAdd(lo[a], FlMul(idx[a], step[a]))]

\* the loop over the samples within the threshold: <<newMin, newMax>>
RECURSIVE FlNearBox(_, _, _)
FlNearBox(newMin, newMax, pts) ==
    IF pts = <<>> THEN <<newMin, newMax>>
    ELSE FlNearBox([a \in 1..3 |-> Min(newMin[a], Head(pts)[a])],
                   [a \in 1..3 |-> Max(newMax[a], Head(pts)[a])], Tail(pts))

\* foundAny: margin = step * 0.5; newMin - margin, newMax + margin
FlShrunk(lo, hi, step, pts) ==
    LET nb     == FlNearBox(hi, lo, pts)
        margin == [a \in 1..3 |-> FlDiv(step[a], 2)]
    IN  <<[a \in 1..3 |-> FlAdd(nb[1][a], -margin[a])],
          [a \in 1..3 |-> FlAdd(nb[2][a], margin[a])]>>

\* !foundAny: center = (min + max) * 0.5, size = max - min
FlExpanded(lo, hi) ==
    LET center == [a \in 1..3 |-> FlDiv(FlAdd(lo[a], hi[a]), 2)]
        size   == [a \in 1..3 |-> FlAdd(hi[a], -lo[a])]
    IN  <<[a \in 1..3 |-> FlAdd(center[a], -size[a])],
          [a \in 1..3 |-> FlAdd(center[a], size[a])]>>

\* step.lengthSquared()
FlLength2(step) == step[1] * step[1] + step[2] * step[2] + step[3] * step[3]

\* std::abs(threshold - prevThreshold) < 1e-10
FlClose(e) == e.hasPrev /\ FlLength2(FlGridStep(e.lo, e.hi)) = e.prev

FlBoxInit ==
    /\ GenIdle
    /\ TableIdle
    /\ fpc = "box"
    /\ fIn = <<>>
    /\ fOut = [lo |-> <<-10 * FlOne, -10 * FlOne, -10 * FlOne>>,
               hi |-> <<10 * FlOne, 10 * FlOne, 10 * FlOne>>,
               iteration |-> 0, hasPrev |-> FALSE, prev |-> 0,
               shrinks |-> 0, grows |-> 0, step |-> <<0, 0, 0>>, found |-> <<>>]

\* the thresholds are closer than 1e-10: break and return the box
FlBoxBreak ==
    /\ fpc = "box"
    /\ fOut.iteration < MaxIterations
    /\ FlClose(fOut)
    /\ fpc' = "returned"
    /\ UNCHANGED <<notFnVars, fIn, fOut>>

\* one iteration: sample, evaluate, find the samples within the threshold,
\* grow or shrink the box
FlBoxIterate ==
    /\ fpc = "box"
    /\ fOut.iteration < MaxIterations
    /\ ~FlClose(fOut)
    /\ \E near \in NearLists :
         LET step == FlGridStep(fOut.lo, fOut.hi)
             pts  == [i \in 1..Len(near) |-> FlSamplePoint(fOut.lo, step, near[i])]
             box  == IF pts = <<>> THEN FlExpanded(fOut.lo, fOut.hi)
                     ELSE FlShrunk(fOut.lo, fOut.hi, step, pts)
         IN  /\ pts = <<>> => fOut.grows < MaxFlGrow
             /\ pts # <<>> => fOut.shrinks < MaxFlShrink
             /\ fOut' = [lo |-> box[1], hi |-> box[2],
                         iteration |-> fOut.iteration + 1, hasPrev |-> TRUE,
                         prev |-> FlLength2(step),
                         shrinks |-> fOut.shrinks + (IF pts = <<>> THEN 0 ELSE 1),
                         grows |-> fOut.grows + (IF pts = <<>> THEN 1 ELSE 0),
                         step |-> step, found |-> pts]
    /\ UNCHANGED <<notFnVars, fpc, fIn>>

FlBoxNext ==
    \/ FlBoxBreak
    \/ FlBoxIterate

FlBoxSpec == FlBoxInit /\ [][FlBoxNext]_vars

----------------------------------------------------------------------------
(* Properties *)

LaunchFinished ==
    gpc \in {"launch", "join", "returned", "aborted", "terminated"} /\ launched = WorkerCount(opts)

\* C1: once the launch loop has run, the k-th thread holds the contiguous
\* block [(k-1)*ceil(n/w), min(k*ceil(n/w), n)), every batch index of
\* [0, n) lies in exactly one block, a worker's loop index stays inside its
\* block, and when generate returns n batches have been processed.
C1_BlockPartition ==
    LET n == Len(batches)
        w == WorkerCount(opts)
        c == CeilDiv(n, w)
    IN  /\ LaunchFinished =>
             /\ \A k \in 1..Len(threads) :
                   wStart[threads[k]] = (k - 1) * c /\ wEnd[threads[k]] = Min(k * c, n)
             /\ \A i \in 0..(n - 1) :
                   Cardinality({k \in 1..Len(threads) :
                                  wStart[threads[k]] <= i /\ i < wEnd[threads[k]]}) = 1
        /\ \A t \in Workers : wpc[t] # "none" => wStart[t] <= wi[t] /\ wi[t] <= wEnd[t]
        /\ batchesProcessed = SeqSum([t \in Workers |-> wi[t] - wStart[t]])
        /\ gpc = "returned" => batchesProcessed = n

\* generate has returned after an uneven partition: the last block is
\* shorter than the first
C1_Witness ==
    /\ gpc = "returned"
    /\ Len(batches) % WorkerCount(opts) # 0
    /\ Len(threads) >= 2
    /\ wEnd[threads[Len(threads)]] - wStart[threads[Len(threads)]] < wEnd[1] - wStart[1]

GridCells(n) ==
    {c \in (0..(n[1] - 2)) \X (0..(n[2] - 2)) \X (0..(n[3] - 2)) : TRUE}

CellInBatch(c, b) ==
    /\ b[1] <= c[1] /\ c[1] < b[2]
    /\ b[3] <= c[2] /\ c[2] < b[4]
    /\ b[5] <= c[3] /\ c[3] < b[6]

\* C2: the batch list tiles the cell grid: every cell lies in exactly one
\* batch, every batch lies in the grid and spans 1..batchSize cells per
\* axis, and a batch shorter than batchSize ends at the end of its axis.
C2_BatchesTileGrid ==
    fpc = "done" =>
        /\ \A c \in GridCells(fIn.n) :
              Cardinality({k \in DOMAIN fOut : CellInBatch(c, fOut[k])}) = 1
        /\ \A k \in DOMAIN fOut : \A a \in 1..3 :
              LET lo == fOut[k][2 * a - 1]
                  hi == fOut[k][2 * a]
              IN  /\ 0 <= lo /\ hi <= fIn.n[a] - 1
                  /\ 1 <= hi - lo /\ hi - lo <= fIn.batchSize
                  /\ (hi - lo < fIn.batchSize => hi = fIn.n[a] - 1)

\* a grid of several batches with a clipped last batch and a full one
C2_Witness ==
    /\ fpc = "done"
    /\ Len(fOut) >= 4
    /\ \E k \in DOMAIN fOut : fOut[k][2] - fOut[k][1] < fIn.batchSize
    /\ \E k \in DOMAIN fOut : fOut[k][2] - fOut[k][1] = fIn.batchSize
                              /\ fOut[k][4] - fOut[k][3] = fIn.batchSize

\* C3 (state part): at most one worker is inside the merge section, and it
\* is the holder of the mutex
C3_OneMerger ==
    /\ Cardinality({t \in Workers : wpc[t] = "merge"}) <= 1
    /\ \A t \in Workers : wpc[t] = "merge" <=> resultMutex = t

\* C3 (step part): the shared mesh changes only in a step of the holder of
\* the mutex; a step that changes a local buffer is made by its owner inside
\* its batch loop and changes no other buffer and not the mesh
C3_WritesGuarded ==
    /\ allTriangles' # allTriangles =>
          resultMutex \in Workers /\ wpc[resultMutex] = "merge"
    /\ \A t \in Workers :
          localTriangles'[t] # localTriangles[t] =>
             /\ wpc[t] = "loop" /\ wi[t] < wEnd[t]
             /\ allTriangles' = allTriangles
             /\ \A u \in Workers \ {t} : localTriangles'[u] = localTriangles[u]

\* C3: merges into the shared mesh are serialized by the mutex
C3_MergeSerialized == []C3_OneMerger /\ [][C3_WritesGuarded]_vars

\* one worker merges a non-empty buffer while another, done with its block
\* and holding triangles, waits for the mutex
C3_Witness ==
    \E t, u \in Workers :
        /\ t # u
        /\ wpc[t] = "merge" /\ localTriangles[t] # <<>>
        /\ wpc[u] = "loop" /\ wi[u] = wEnd[u] /\ localTriangles[u] # <<>>

\* C8: the local buffers and the mesh always hold whole triangles
C8_WholeTriangles ==
    /\ Len(allTriangles) % 3 = 0
    /\ \A t \in Workers : Len(localTriangles[t]) % 3 = 0

\* generate has returned a mesh of several triangles merged from two workers
C8_Witness ==
    /\ gpc = "returned"
    /\ Len(allTriangles) >= 6
    /\ Len(threads) >= 2
    /\ \A k \in 1..Len(threads) : localTriangles[threads[k]] # <<>>

\* C9: every row of the table holds a -1 within its 16 entries with only
\* edge indices 0..11 before it, the loop stops inside the row and pushes at
\* most 5 triangles
C9_RowsTerminated ==
    tpc \in {"stopped", "overrun"} =>
        /\ \E j \in 0..(RowLen - 1) :
              /\ TriIndex(tIndex, j) = -1
              /\ \A k \in 0..(j - 1) : TriIndex(tIndex, k) \in 0..11
        /\ tpc = "stopped"
        /\ tEmitted <= 5

\* the skip condition as the specification states it
StatedSkip(o, b) ==
    LET bmin == BatchMin(o, b)
        bmax == BatchMax(o, b)
        vs   == [i \in 1..8 |-> FieldSign(o.field, Double(BatchCorners(bmin, bmax)[i]))]
    IN  /\ ~FieldAbsLeq(o.field, <<bmin[1] + bmax[1], bmin[2] + bmax[2], bmin[3] + bmax[3]>>,
                        Diag2(bmin, bmax))
        /\ (\A i \in 1..8 : vs[i] > 0) \/ (\A i \in 1..8 : vs[i] < 0)

\* C6: canSkipBatch returns true exactly when |field(c)| > R and the eight
\* corner distances are all > 0 or all < 0
C6_SkipIffFarAndStrictlySameSigned ==
    fpc = "done" => (fOut.can <=> StatedSkip(fIn.o, fIn.b))

\* cell (i, j, k) of batch b has a corner below the level and one not below
SurfaceCell(o, b, i, j, k) ==
    LET below == {q \in 1..8 :
                    FieldSign(o.field,
                              Double(GridPoint(o, b[1] + i + CornerOffsets[q][1],
                                                  b[3] + j + CornerOffsets[q][2],
                                                  b[5] + k + CornerOffsets[q][3]))) < 0}
    IN  below # {} /\ below # 1..8

ContainsSurfaceCell(o, b) ==
    \E i \in 0..(b[2] - b[1] - 1), j \in 0..(b[4] - b[3] - 1), k \in 0..(b[6] - b[5] - 1) :
        SurfaceCell(o, b, i, j, k)

C10_SeamBitIdentical ==
    /\ fpc \in {"sampled", "mapped"} => fOut.gridA = fOut.gridB
    /\ fpc = "mapped" => fOut.vertA = fOut.vertB

\* the flat vertex sequence s as a sequence of triangles
Triangles(s) == [j \in 1..(Len(s) \div 3) |-> <<s[3 * j - 2], s[3 * j - 1], s[3 * j]>>]

\* C4: the multiset of triangles of the returned mesh is the one the field
\* and the options determine, whatever the schedule of the workers and
\* whatever a read outside the table returns
C4_DeterministicMultiset ==
    gpc = "returned" =>
        \A g \in 1..MaxOverrun :
            SeqToBag(Triangles(allTriangles)) = SeqToBag(Triangles(ReferenceMesh(opts, batches, g)))

\* thread t was never started or has exited
WorkerExited(t) == wpc[t] \in {"none", "done"}

\* thread t has finished its block and waits for the mutex
WorkerWaits(t) == wpc[t] = "loop" /\ wi[t] >= wEnd[t] /\ resultMutex # 0

\* the caller waits in join() for a thread that has not exited
MainWaits == gpc = "join" /\ joined < Len(threads) /\ wpc[threads[joined + 1]] # "done"

\* no thread of the process can take a step
Quiescent ==
    \/ gpc \in {"aborted", "terminated"}
    \/ /\ gpc = "returned" \/ MainWaits
       /\ \A t \in Workers : WorkerExited(t) \/ WorkerWaits(t)

\* C5: whenever no thread can take a step generate has returned, and when it
\* has returned every launched worker has processed its whole block, merged
\* its buffer, exited and been joined
C5_RunsToCompletion ==
    /\ Quiescent => gpc = "returned"
    /\ gpc = "returned" =>
          /\ joined = Len(threads)
          /\ resultMutex = 0
          /\ \A k \in 1..Len(threads) :
                wpc[threads[k]] = "done" /\ wi[threads[k]] = wEnd[threads[k]]


\* C11: generate called with batchSize <= 0 is rejected at the call site:
\* the call never reaches the batch loops' body, builds no batch, starts no
\* worker and does not go on to the launch loop or return a mesh.
C11_BatchSizeRejected ==
    (gpc # "off" /\ opts.batchSize <= 0) =>
        /\ gpc \in {"grid", "batching"}
        /\ spins = 0
        /\ batches = <<>>
        /\ launched = 0
        /\ threads = <<>>

\* C12: generate called with a negative step, or with step = 0 and
\* samples <= 0, is rejected before any work: no default step is substituted,
\* no grid is laid out and no mesh is returned.
C12_StepRejected ==
    (fpc # "off" /\ (fIn.step < 0 \/ (fIn.step = 0 /\ fIn.samples <= 0))) =>
        /\ fpc \in {"step", "dims"}
        /\ ~fOut.defaulted

\* C13: an evaluator that raises inside a worker makes generate fail with
\* that error; the process is never torn down by the exception
C13_EvaluationErrorReported == gpc # "terminated"

\* C16: a combinator over operands tagged ka and kb uses k = max(ka, kb),
\* takes the smooth form exactly when k > 0 and the hard form otherwise, so
\* the smoothing scalar of a smooth form is never negative
C16_SmoothIffPositive ==
    fpc = "evaluated" =>
        /\ fOut.k = Max(fIn.ka, fIn.kb)
        /\ fOut.smooth <=> fOut.k > 0
        /\ fOut.k <= 0 =>
              fOut.ab = (IF fIn.op = "union" THEN HardUnion(fOut.a, fOut.b)
                         ELSE IF fIn.op = "intersection" THEN HardIntersection(fOut.a, fOut.b)
                         ELSE HardDifference(fOut.a, fOut.b))

\* C19: hard union is commutative: with both tags 0, (a | b)(p) = (b | a)(p)
C19_HardUnionCommutes ==
    (fpc = "evaluated" /\ fIn.op = "union" /\ fIn.ka = 0 /\ fIn.kb = 0) =>
        fOut.ab = fOut.ba

\* C20: for k > 0 the smooth union value is at most min(a(p), b(p))
C20_SmoothUnionBound ==
    (/\ fpc = "evaluated" /\ fIn.op = "union" /\ fOut.k > 0
     /\ ~IsNaN(fOut.a) /\ ~IsNaN(fOut.b)) =>
        DLeq(fOut.ab, StdMin(fOut.a, fOut.b))

\* C14: evaluate(P) returns exactly |P| distances, out[i] being the distance
\* of in[i], for every Field and every point list: no call faults or returns
\* values read past the end of a vector
C14_BatchPreserved ==
    (fpc \in {"fields", "faulted"} /\ fOut # NoEval) =>
        /\ fpc = "fields"
        /\ ~fOut.garbage
        /\ Len(fOut.out) = Len(fOut.pts)
        /\ \A i \in 1..Len(fOut.pts) :
              LET one == Eval(fOut.f.fn, <<fOut.pts[i]>>)
              IN  ~one.ub /\ Len(one.out) = 1 /\ fOut.out[i] = one.out[1]

\* C17: SDF3::k returns a new object with the function of the one it was
\* called on and leaves every live object as it was; the object returned by a
\* combinator, transform or modifier carries tag 0
C17_TagStaged ==
    [][fpc = "fields" =>
          /\ fIn \subseteq fIn'
          /\ \A f \in fIn' \ fIn :
                /\ f.by = "k" => \E g \in fIn : g.fn = f.fn
                /\ f.by \notin {"new", "k"} => f.k = 0]_vars

\* C18: rotate and orient given an axis of magnitude below 1e-10 return no
\* Field
C18_ZeroAxisRejected ==
    fpc \in {"fields", "faulted"} => \A f \in fIn : ~f.zeroAxis

\* C15: estimateBounds ends for every field by returning a box: it never
\* faults, samples at most 32 times, returns as soon as two successive
\* thresholds are closer than 1e-10 and otherwise after 32 iterations, and
\* the box it returns is finite and comes from values the field returned
C15_EstimateTerminates ==
    fpc \in {"estimating", "estimated", "faulted"} =>
        /\ fpc # "faulted"
        /\ fOut.sampled <= MaxIterations
        /\ ~fOut.garbage
        /\ fpc = "estimated" =>
              /\ ThresholdClose(fOut) \/ fOut.iteration = MaxIterations
              /\ FiniteBox(fOut)

\* bit i of the cube index c
IndexBit(c, i) == (c \div Pow2(i)) % 2

\* the corner order the claim lists
StatedCorners ==
    << <<0, 0, 0>>, <<1, 0, 0>>, <<1, 1, 0>>, <<0, 1, 0>>,
       <<0, 0, 1>>, <<1, 0, 1>>, <<1, 1, 1>>, <<0, 1, 1>> >>

\* C21: bit i of the cube index of a cell is set iff the value at corner i,
\* in the order (0,0,0),(1,0,0),(1,1,0),(0,1,0),(0,0,1),(1,0,1),(1,1,1),
\* (0,1,1), is below the level; a cell with index 0 or 255 is passed over
\* and emits no triangle
C21_CubeIndexBits ==
    fpc \in {"indexed", "skipped", "edges", "emitted", "faulted"} =>
        /\ fOut.cubeIndex \in 0..255
        /\ \A i \in 0..7 :
              IndexBit(fOut.cubeIndex, i) = 1 <=>
                 fIn.volume[StatedCorners[i + 1][1] + 2 * StatedCorners[i + 1][2]
                            + 4 * StatedCorners[i + 1][3] + 1] < fIn.level
        /\ fOut.cubeIndex \in {0, 255} => fpc \in {"indexed", "skipped"} /\ fOut.triangles = <<>>
        /\ fpc = "skipped" => fOut.cubeIndex \in {0, 255}

\* a cell with a value equal to the level at one corner and values below it
\* at others has emitted a triangle
C21_Witness ==
    /\ fpc = "emitted"
    /\ fOut.triangles # <<>>
    /\ \E i \in 1..8 : fOut.values[i] = fIn.level
    /\ \E i \in 1..8 : fOut.values[i] < fIn.level

\* C22: vertexInterp returns p1 when |iso - v1| < 1e-10, else p2 when
\* |iso - v2| < 1e-10, else p1 when |v1 - v2| < 1e-10, and otherwise
\* p1 + (p2 - p1) * (iso - v1) / (v2 - v1); it divides only in the last
\* case, and then by a difference of magnitude at least 1e-10
C22_InterpCascade ==
    fpc = "done" /\ fIn.e \in 1..12 =>
        LET p1 == fOut.p1
            p2 == fOut.p2
            stated ==
              IF Abs(fIn.isolevel - fIn.v1) < EPS THEN <<RatInt(p1[1]), RatInt(p1[2]), RatInt(p1[3])>>
              ELSE IF Abs(fIn.isolevel - fIn.v2) < EPS
                   THEN <<RatInt(p2[1]), RatInt(p2[2]), RatInt(p2[3])>>
              ELSE IF Abs(fIn.v1 - fIn.v2) < EPS
                   THEN <<RatInt(p1[1]), RatInt(p1[2]), RatInt(p1[3])>>
              ELSE [k \in 1..3 |->
                      Rat(p1[k] * (fIn.v2 - fIn.v1) + (p2[k] - p1[k]) * (fIn.isolevel - fIn.v1),
                          fIn.v2 - fIn.v1)]
        IN  /\ fOut.vertex = stated
            /\ fOut.divides => Abs(fOut.divisor) >= EPS
            /\ fOut.divides <=> (/\ Abs(fIn.isolevel - fIn.v1) >= EPS
                                 /\ Abs(fIn.isolevel - fIn.v2) >= EPS
                                 /\ Abs(fIn.v1 - fIn.v2) >= EPS)

\* both v1 and v2 are within the tolerance of the level and differ: the
\* first guard decides and p1 is returned
C22_Witness ==
    /\ fpc = "done"
    /\ fIn.e \in 1..12
    /\ Abs(fIn.isolevel - fIn.v1) < EPS
    /\ Abs(fIn.isolevel - fIn.v2) < EPS
    /\ fIn.v1 # fIn.v2
    /\ fOut.vertex = VertexOf(fOut.p1)
    /\ fOut.vertex # VertexOf(fOut.p2)

\* the least and the greatest coordinate on axis a among the points pts
LeastOn(pts, a) ==
    CHOOSE m \in {pts[i][a] : i \in 1..Len(pts)} : \A i \in 1..Len(pts) : DLeq(m, pts[i][a])

GreatestOn(pts, a) ==
    CHOOSE m \in {pts[i][a] : i \in 1..Len(pts)} : \A i \in 1..Len(pts) : DLeq(pts[i][a], m)

\* C23: an iteration that finds no sample within the threshold replaces the
\* box by the box of the same centre and twice the extent on each axis; one
\* that finds some replaces it by their tight bounding box enlarged on each
\* side by half the grid spacing of that axis
C23_BoxUpdate ==
    [][(fpc = "box" /\ fpc' = "box" /\ fOut' # fOut) =>
          \A a \in 1..3 :
             LET extent  == DSub(fOut.hi[a], fOut.lo[a])
                 spacing == DDiv(extent, DNum(15))
                 half    == DDiv(spacing, DNum(2))
             IN  IF fOut'.found = <<>>
                 THEN /\ DAdd(fOut'.lo[a], fOut'.hi[a]) = DAdd(fOut.lo[a], fOut.hi[a])
                      /\ DSub(fOut'.hi[a], fOut'.lo[a]) = DMul(DNum(2), extent)
                 ELSE /\ fOut'.lo[a] = DSub(LeastOn(fOut'.found, a), half)
                      /\ fOut'.hi[a] = DAdd(GreatestOn(fOut'.found, a), half)]_vars

\* the box has grown once and has then been shrunk around two samples
C23_Witness ==
    /\ fpc = "box"
    /\ fOut.grows >= 1
    /\ fOut.shrinks >= 1
    /\ Len(fOut.found) = 2
    /\ \A a \in 1..3 : fOut.found[1][a] # fOut.found[2][a]
    /\ fOut.lo # <<DNum(-10), DNum(-10), DNum(-10)>>

\* F(lo) \o F(lo + 1) \o ... \o F(hi)
RECURSIVE Cat(_, _, _)
Cat(F(_), lo, hi) == IF lo > hi THEN <<>> ELSE F(lo) \o Cat(F, lo + 1, hi)

\* the triangles of batch b with its cells taken in row-major order (x
\* fastest, then y, then z), each cell's vertices in the order of its table
\* row, in world coordinates
RowMajorBatch(o, b, g) ==
    LET d   == BatchDims(b)
        vol == GridValues(o, b)
        cell(x, y, z) ==
            LET tri == CellTriangles(CellValues(vol, d, x, y, z), CellCorners(x, y, z), 0, g)
            IN  [j \in 1..Len(tri) |-> ToWorld(tri[j], o.step, BatchMin(o, b))]
    IN  Cat(LAMBDA z : Cat(LAMBDA y : Cat(LAMBDA x : cell(x, y, z), 0, d[1] - 2), 0, d[2] - 2),
            0, d[3] - 2)

\* C24 (step part): the mesh grows only by the whole buffer of the merging
\* worker, put at its end; a worker's buffer grows only by the triangles of
\* the batch its loop is at, put at its end, and its loop goes through its
\* batches in list order
C24_AppendsInOrder ==
    /\ allTriangles' # allTriangles =>
          \E t \in Workers :
             /\ wpc[t] = "merge" /\ wpc'[t] = "done"
             /\ allTriangles' = allTriangles \o localTriangles[t]
    /\ \A t \in Workers :
          /\ (wpc[t] # "none" /\ wi'[t] # wi[t]) => wi'[t] = wi[t] + 1
          /\ localTriangles'[t] # localTriangles[t] =>
                /\ wpc[t] = "loop" /\ wi'[t] = wi[t] + 1
                /\ \E g \in 1..MaxOverrun :
                      localTriangles'[t] =
                         localTriangles[t] \o RowMajorBatch(opts, batches[wi[t] + 1], g)

\* C24: the mesh is a concatenation of whole worker buffers in merge order;
\* inside a buffer the triangles of the worker's batches are in batch-list
\* order, inside a batch in row-major cell order and per cell in table order
C24_MeshOrder == [][C24_AppendsInOrder]_vars

\* generate has returned a mesh made of the buffer of the second thread
\* followed by the buffer of the first, which holds several triangles
C24_Witness ==
    /\ gpc = "returned"
    /\ Len(threads) = 2
    /\ Len(localTriangles[threads[1]]) >= 6
    /\ localTriangles[threads[2]] # <<>>
    /\ localTriangles[threads[1]] # localTriangles[threads[2]]
    /\ allTriangles = localTriangles[threads[2]] \o localTriangles[threads[1]]

\* the snapping of generate has been done
Snapped == fpc \in {"tiling", "launch", "working", "returned"}

\* the box of batch b on axis a, as offsets from boundsMin, lies inside the
\* snapped box
BatchInside(b, a) ==
    /\ 0 <= b[2 * a - 1] * fOut.step
    /\ b[2 * a - 1] * fOut.step <= b[2 * a] * fOut.step
    /\ b[2 * a] * fOut.step <= fOut.snapped[a]

\* C25: after the snapping boundsMax = boundsMin + (n - 1) * step with
\* n = ceil(extent / step) + 1 on every axis, the snapped box contains the
\* box it was made from and is a whole number of cells wide, and every batch
\* box lies inside it
C25_SnappedBox ==
    Snapped =>
        \A a \in 1..3 :
            /\ fOut.n[a] = CeilQuot(fIn.ext[a], fOut.step) + 1
            /\ fOut.snapped[a] = (fOut.n[a] - 1) * fOut.step
            /\ fOut.snapped[a] >= fIn.ext[a]
            /\ fOut.n[a] - 1 \in Nat
            /\ \A i \in 1..Len(fOut.batches) : BatchInside(fOut.batches[i], a)

\* the same for the options with a positive step
C25_SnappedBoxPositiveStep == fIn.step > 0 => C25_SnappedBox

\* a grid of several cells has been snapped to a box larger than the caller's
C25_Reached ==
    /\ fpc = "launch"
    /\ fIn.step = 2
    /\ fIn.ext = <<1, 2, 1>>
    /\ fOut.snapped = <<2, 2, 2>>
    /\ fOut.batches # <<>>

\* the batches (list positions) whose loop pass has ended
PassedBatches == UNION { (wStart[t] + 1)..wi[t] : t \in { u \in Workers : wpc[u] # "none" } }

\* the batches whose pass is between its two increments
HalfCounted == { wi[t] + 1 : t \in { u \in Workers : wpc[u] = "skipped" } }

\* the batches among S for which options.sparse && canSkipBatch(...) is true
SkipTrue(S) == { i \in S : SkipsBatch(opts, batches[i]) }

\* C26: the two counters hold what the passes ended so far have added, none
\* of it lost; when generate returns batchesProcessed is the number of batches
\* and batchesSkipped the number of batches whose skip test was true
C26_CountersExact ==
    /\ gpc \in {"launch", "join", "returned"} =>
          /\ batchesProcessed = Cardinality(PassedBatches)
          /\ batchesSkipped = Cardinality(SkipTrue(PassedBatches \cup HalfCounted))
    /\ gpc = "returned" =>
          /\ batchesProcessed = Len(batches)
          /\ batchesSkipped = Cardinality(SkipTrue(1..Len(batches)))

\* two threads have run, some batches were skipped and some were not
C26_Witness ==
    /\ gpc = "returned"
    /\ Len(threads) = 2
    /\ batchesSkipped >= 1
    /\ batchesProcessed > batchesSkipped

\* this step is a step of worker t
Moves(t) == wpc'[t] # wpc[t] \/ wi'[t] # wi[t] \/ localTriangles'[t] # localTriangles[t]

\* worker t takes the mutex in this step
Acquires(t) == resultMutex # t /\ resultMutex' = t

\* worker t gives the mutex back in this step
Releases(t) == resultMutex = t /\ resultMutex' # t

\* C27 (step part): a worker takes the mutex only when it is free and its loop
\* has passed the last batch of its block, and then merges; a step of its loop
\* before that leaves the mutex alone; it gives the mutex back in the step
\* that ends it, never takes it again, and the step that ends generate finds
\* every launched worker ended
C27_LockOnceAfterLoop ==
    /\ \A t \in Workers :
          /\ Acquires(t) =>
                /\ resultMutex = 0
                /\ wpc[t] = "loop" /\ wi[t] = wEnd[t]
                /\ wpc'[t] = "merge"
          /\ (wpc[t] \in {"loop", "skipped"} /\ wi[t] < wEnd[t] /\ Moves(t)) =>
                resultMutex' = resultMutex
          /\ (wpc[t] # wpc'[t] /\ wpc'[t] = "merge") => Acquires(t)
          /\ Releases(t) => wpc[t] = "merge" /\ wpc'[t] = "done" /\ resultMutex' = 0
          /\ (wpc[t] # "done" /\ wpc'[t] = "done") => Releases(t)
          /\ wpc[t] \in {"merge", "done"} => wpc'[t] \in {"merge", "done"}
          /\ wpc[t] = "done" => wpc'[t] = "done" /\ ~Acquires(t)
    /\ (gpc # "returned" /\ gpc' = "returned") =>
          /\ resultMutex = 0
          /\ \A j \in 1..Len(threads) : wpc[threads[j]] = "done"

\* C27: each launched worker takes the result mutex exactly once, after the
\* last batch of its block and never before, and gives it back before it ends
C27_MutexDiscipline == [][C27_LockOnceAfterLoop]_vars

\* one worker is merging under the mutex while the other, launched too, is
\* past its first batch and still has batches to do
C27_Witness ==
    \E t, u \in Workers :
        /\ t # u
        /\ wpc[t] = "merge" /\ resultMutex = t /\ wi[t] = wEnd[t] /\ wEnd[t] > wStart[t]
        /\ wpc[u] = "loop" /\ wStart[u] < wi[u] /\ wi[u] < wEnd[u]

\* the corner values of edge e (1..12) are on opposite sides of the level
EdgeCrossed(e) ==
    (fOut.values[EdgeCorners[e][1] + 1] < fIn.level) #
    (fOut.values[EdgeCorners[e][2] + 1] < fIn.level)

\* vertex v lies on the segment between the two corners of edge e of the
\* unit cell
OnEdge(v, e) ==
    LET p1 == CornerOffsets[EdgeCorners[e][1] + 1]
        p2 == CornerOffsets[EdgeCorners[e][2] + 1]
    IN  /\ v # Garbage
        /\ \A k \in 1..3 :
              IF p1[k] = p2[k] THEN v[k] = RatInt(p1[k])
              ELSE v[k][2] > 0 /\ 0 <= v[k][1] /\ v[k][1] <= v[k][2]

\* C28: every vertex a cell emits lies on one of the 12 edges of the cell
\* whose corner values are on opposite sides of the level, and so inside the
\* unit cell
C28_VerticesOnCrossedEdges ==
    fpc = "emitted" =>
        \A j \in 1..Len(fOut.triangles) :
            \E e \in 1..12 : EdgeCrossed(e) /\ OnEdge(fOut.triangles[j], e)

\* the same for the cells whose row of the table ends with -1
C28_ListedRowsOnCrossedEdges == RowTerminates(fOut.cubeIndex) => C28_VerticesOnCrossedEdges

\* a cell of a listed row has emitted a vertex strictly inside an edge
C28_Reached ==
    /\ fpc = "emitted"
    /\ RowTerminates(fOut.cubeIndex)
    /\ \E j \in 1..Len(fOut.triangles) : \E k \in 1..3 : fOut.triangles[j][k][2] > 1

\* the batches the run with sparse = true skips
SkippedBatches ==
    { i \in 1..Len(SparseBatches) : SkipsBatch(SparseOptions(TRUE), SparseBatches[i]) }

\* the skipped batches contribute nothing to the run with sparse = false,
\* whatever a read outside the table returns, and that run skips none
C29_SkippedContributeNothing ==
    /\ \A i \in SkippedBatches : \A g \in 1..MaxOverrun :
          BatchTriangles(SparseOptions(FALSE), SparseBatches[i], g) = <<>>
    /\ fpc \in {"sparse", "compared"} => fOut.denseSkipped = 0

\* C29: for a 1-Lipschitz field the run with sparse = true returns the same
\* multiset of triangles as the run with sparse = false; the skipped batches
\* would have contributed nothing, and the run with sparse = false skips none
C29_SparseSameMultiset ==
    /\ C29_SkippedContributeNothing
    /\ fpc = "compared" =>
          SeqToBag(Triangles(fOut.sparse)) = SeqToBag(Triangles(fOut.dense))

\* the same for the grids none of whose cells runs off its table row
C29_SameMultisetOnListedRows == ~SparseOverruns(FALSE) => C29_SparseSameMultiset

\* both runs have returned a non-empty mesh from listed rows and the run with
\* sparse = true has skipped a batch
C29_Reached ==
    /\ fpc = "compared"
    /\ ~SparseOverruns(FALSE)
    /\ fOut.dense # <<>>
    /\ fOut.sparseSkipped >= 1

\* C30: at the start of every iteration of estimateBounds and on return
\* boundsMin < boundsMax on every axis, and after a shrinking iteration the
\* box contains every sample that was within the threshold in it
C30_BoxProper ==
    fpc \in {"box", "returned"} =>
        \A a \in 1..3 :
            /\ fOut.lo[a] < fOut.hi[a]
            /\ \A i \in 1..Len(fOut.found) :
                  fOut.lo[a] <= fOut.found[i][a] /\ fOut.found[i][a] <= fOut.hi[a]

\* the same in exact arithmetic
C30_ExactBoxProper ==
    fpc \in {"box", "returned"} =>
        \A a \in 1..3 :
            /\ DLess(fOut.lo[a], fOut.hi[a])
            /\ \A i \in 1..Len(fOut.found) :
                  DLeq(fOut.lo[a], fOut.found[i][a]) /\ DLeq(fOut.found[i][a], fOut.hi[a])

\* every value met in the followed iterations is zero or above the range
\* where a result would fall below the unit
C30_NoUnderflow ==
    fpc \in {"box", "returned"} =>
        \A a \in 1..3 :
            /\ fOut.step[a] = 0 \/ fOut.step[a] >= Pow2(MantissaBits)
            /\ fOut.hi[a] - fOut.lo[a] = 0 \/ fOut.hi[a] - fOut.lo[a] >= Pow2(MantissaBits)

============================================================================
